---- MODULE Spec2Model ----
(***************************************************************************)
(* A model of the execute and report steps of tmt                          *)
(* (src/tmt/steps/execute/__init__.py, src/tmt/steps/report/__init__.py).  *)
(*                                                                         *)
(* Three specifications share the module:                                  *)
(*   SpecCheck  the result classification of ExecutePlugin (check_shell,   *)
(*              check_beakerlib, timeout_hint) applied to bounded inputs;  *)
(*   Spec       the Execute and Report steps as objects of one process     *)
(*              with a working directory that outlives the process;        *)
(*   SpecUnit   single functions applied to bounded inputs, one function   *)
(*              in each behaviour: the legacy-method normalization,        *)
(*              prepare_scripts, data_path(create=True) and                *)
(*              find_general_plan of src/tmt/export.py.                    *)
(*                                                                         *)
(* Python values are modelled as follows.  None is the string "None".  A   *)
(* dict is a TLA+ function on strings, so that a missing key is a missing  *)
(* element of its DOMAIN.  A path is the sequence of its components.  A    *)
(* file is a record [exists, content].  A test name "/a/b" is the sequence *)
(* <<"a", "b">> (the leading slash is implicit).                           *)
(***************************************************************************)
EXTENDS Integers, Sequences, FiniteSets, TLC

VARIABLES
    \* ---- SpecCheck: one classified test ----
    cop,        \* "none", "shell" or "beakerlib": the check that ran last
    ctest,      \* the tmt.Test handed to the check
    cbefore,    \* the files of the test's data directory before the check
    cfiles,     \* the files of the test's data directory after the check
    cres,       \* the tmt.Result the check returned
    craised,    \* the exception the check raised instead, None if it returned
    \* ---- Spec: the plan and its environment ----
    plandata,   \* step -> the configuration records of the plan's metadata
    guests,     \* plan.provision.guests(), in order
    focus,      \* the step whose operations the behaviour exercises
    \* ---- Spec: the objects of the running process ----
    myRun,      \* plan.my_run: the plan belongs to a run
    status,     \* step -> Step._status: None, "todo" or "done"
    stepdata,   \* step -> Step.data, the configuration records
    phases,     \* step -> Step._phases, the plugins wake() appended
    framework,  \* Execute._framework
    results,    \* Execute._results
    \* ---- Spec: the working directory ----
    stepfile,   \* step -> step.yaml: the saved status and data
    resultsfile,\* results.yaml of the execute step
    \* ---- Spec: what the last call did ----
    last,       \* the last operation: its step, the status it found, the
                \* error it raised, the summary it printed, the phases it ran
    aborts,     \* how many go() calls were aborted by a raising phase
    \* ---- SpecUnit: one function and what it acts on ----
    unit,       \* the function the behaviour exercises
    uin,        \* its arguments
    ust,        \* the state it reads and writes
    uout        \* what its calls returned or raised

cvars == <<cop, ctest, cbefore, cfiles, cres, craised>>

envvars == <<plandata, guests, focus>>

memvars == <<myRun, status, stepdata, phases, framework, results>>

diskvars == <<stepfile, resultsfile>>

uvars == <<unit, uin, ust, uout>>

svars == <<plandata, guests, focus, myRun, status, stepdata, phases, framework, results,
           stepfile, resultsfile, last, aborts>>

vars == <<cop, ctest, cbefore, cfiles, cres, craised, plandata, guests, focus, myRun, status,
          stepdata, phases, framework, results, stepfile, resultsfile, last, aborts,
          unit, uin, ust, uout>>

None == "None"

----------------------------------------------------------------------------
(* Bounds of the model *)

\* Exit codes -1 .. MaxExitCode are tried, and the timeout sentinel
MaxExitCode == 3

\* Lines of a beakerlib TestResults file
MaxLines == 2

\* Guests the provision step may have ready
MaxGuests == 2

\* Tests the discover step found
MaxTests == 2

\* Configuration records of one step in the plan's metadata
MaxData == 2

\* Phases one step object may collect (wake() appends on every call)
MaxPhases == 2

\* go() calls a raising phase may abort
MaxAborts == 1

\* Calls of one function in a behaviour of SpecUnit
MaxCalls == 2

\* Scripts an executor is configured with
MaxScripts == 2

\* General test plans a search of the test case management system returns
MaxPlans == 2

\* Bugs a test verifies
MaxBugs == 2

----------------------------------------------------------------------------
(* Program constants *)

\* Test data directory name
TEST_DATA == "data"

\* The id of the test case management system among Bugzilla's external trackers
EXTERNAL_TRACKER_ID == 69

\* The scripts source directory inside the installed package
SCRIPTS_SRC_DIR == "tmt/steps/execute/scripts"

\* os.path.basename(path): the last component of the path
basename(path) == path[Len(path)]

\* A Script of the internal executor
Script(path, aliases) == [path |-> path, aliases |-> aliases, related_variables |-> <<>>]

\* Default test framework
DEFAULT_FRAMEWORK == "shell"

\* The main test output filename
TEST_OUTPUT_FILENAME == "output.txt"

\* tmt.utils.PROCESS_TIMEOUT, the exit code the executor reports for a test
\* killed after its duration ran out
PROCESS_TIMEOUT == 124

----------------------------------------------------------------------------
(* Sequence helpers *)

RECURSIVE JoinStr(_)
JoinStr(s) == IF s = <<>> THEN "" ELSE Head(s) \o JoinStr(Tail(s))

RECURSIVE MapSeq(_, _)
MapSeq(F(_), s) == IF s = <<>> THEN <<>> ELSE <<F(Head(s))>> \o MapSeq(F, Tail(s))

RECURSIVE SumSeq(_)
SumSeq(s) == IF s = <<>> THEN 0 ELSE Head(s) + SumSeq(Tail(s))

RECURSIVE Flatten(_)
Flatten(s) == IF s = <<>> THEN <<>> ELSE Head(s) \o Flatten(Tail(s))

\* The sequences over S of length 0 .. n
SeqsUpTo(S, n) == UNION {[1..k -> S] : k \in 0..n}

----------------------------------------------------------------------------
(* tmt.Result and the values it is built from *)

\* A str or a list handed where Python accepts both
StrVal(v) == [kind |-> "str", v |-> v]
ListVal(v) == [kind |-> "list", v |-> v]

\* tmt.utils.listify: a list stays, anything else becomes a one-element list
listify(x) == IF x.kind = "list" THEN x.v ELSE <<x.v>>

\* dict.get(key) with the default None
DictGet(d, key) == IF key \in DOMAIN d THEN d[key] ELSE None

\* tmt.Result(data, name, interpret): name, outcome, log list, duration, note.
\* The third argument is the test's 'result' attribute, which the model keeps
\* at its default (the outcome is respected as classified).
Result(data, name, interpret) ==
    [name |-> name,
     result |-> data["result"],
     log |-> listify(data["log"]),
     duration |-> DictGet(data, "duration"),
     note |-> DictGet(data, "note")]

NoResult == [name |-> <<>>, result |-> None, log |-> <<>>, duration |-> None,
             note |-> None]

----------------------------------------------------------------------------
(* Files of a test's data directory *)

NoFile == [exists |-> FALSE, content |-> <<>>]
File(content) == [exists |-> TRUE, content |-> content]

\* A test data directory with no file in it
NoFiles == [output |-> NoFile, journal |-> NoFile, results |-> NoFile]

\* ExecutePlugin.data_path(test, filename, full): the path of a data file,
\* relative to the step's workdir unless full
data_path(test, filename, full) ==
    (IF full THEN <<"WORKDIR">> ELSE <<>>) \o <<TEST_DATA>> \o test.name \o <<filename>>

\* The advisory text timeout_hint writes
HintText(test) ==
    "\nMaximum test time '" \o test.duration \o "' exceeded.\n"
    \o "Adjust the test 'duration' attribute if necessary.\n"
    \o "https://tmt.readthedocs.io/en/stable/spec/tests.html#duration\n"

\* Common.read(path): the content of the file, or the FileError
read(file) ==
    IF file.exists THEN [raises |-> None, value |-> file.content]
    ELSE [raises |-> "FileError", value |-> <<>>]

\* Common.write(path, text, mode='a'): append, creating the file if needed
WriteAppend(file, text) == File(file.content \o <<text>>)

\* Mutant of timeout_hint: the output log is opened for writing, not appending
timeout_hint_truncates(test, files) ==
    [files EXCEPT !.output = File(<<HintText(test)>>)]

\* ExecutePlugin.timeout_hint(test): the files after the hint is appended to
\* the test's output log
timeout_hint(test, files) ==
    [files EXCEPT !.output = WriteAppend(files.output, HintText(test))]

----------------------------------------------------------------------------
(* check_shell *)

\* A check returns the Result and the files as it leaves them
Checked(result, files) == [result |-> result, files |-> files, raised |-> None]

\* A check that lets an exception out returns nothing
Raised(exception, files) == [result |-> NoResult, files |-> files, raised |-> exception]

\* {0: 'pass', 1: 'fail'}[returncode]: the value, or the KeyError
outcome_of(returncode) ==
    CASE returncode = 0 -> [raises |-> None, value |-> "pass"]
      [] returncode = 1 -> [raises |-> None, value |-> "fail"]
      [] OTHER -> [raises |-> "KeyError", value |-> None]

\* Mutant of check_shell: every exit code but 0 is a failure
check_shell_any_nonzero_fails(test, files) ==
    LET data0 == [log |-> StrVal(data_path(test, TEST_OUTPUT_FILENAME, FALSE)),
                  duration |-> test.real_duration]
        data == data0 @@ ("result" :> IF test.returncode = 0 THEN "pass" ELSE "fail")
    IN  Checked(Result(data, test.name, test.result), files)

\* ExecutePlugin.check_shell(test)
check_shell(test, files) ==
    LET data0 == [log |-> StrVal(data_path(test, TEST_OUTPUT_FILENAME, FALSE)),
                  duration |-> test.real_duration]
        looked == outcome_of(test.returncode)
        timedOut == test.returncode = PROCESS_TIMEOUT
        data1 == data0 @@ ("result" :> "error")
    IN  IF looked.raises = None
        THEN Checked(Result(data0 @@ ("result" :> looked.value), test.name, test.result),
                     files)
        ELSE IF looked.raises # "KeyError" THEN Raised(looked.raises, files)
        ELSE IF timedOut
        THEN Checked(Result(data1 @@ ("note" :> "timeout"), test.name, test.result),
                     timeout_hint(test, files))
        ELSE Checked(Result(data1, test.name, test.result), files)

----------------------------------------------------------------------------
(* check_beakerlib *)

\* The text of a TestResults file is a sequence of lines KEY=VALUE; a value
\* is a sequence of tokens: the double quote, a non-word character, or a
\* non-empty run of word characters (what \w+ matches).
Quote == "\""
NonWord == {Quote, "-"}
Line(key, val) == [key |-> key, val |-> val]

\* str.lower() on a word the model uses
lower_word(w) ==
    CASE w = "PASS" -> "pass"
      [] w = "FAIL" -> "fail"
      [] w = "WARN" -> "warn"
      [] OTHER -> w

\* str.lower() on a text given by its tokens
lower(tokens) == JoinStr(MapSeq(lower_word, tokens))

NoMatch == [found |-> FALSE, group |-> <<>>]
Match(group) == [found |-> TRUE, group |-> group]

\* re.search('TESTRESULT_RESULT_STRING=(.*)', results): the first line with
\* the key matches, and the group is the rest of the line as it stands
RECURSIVE search_result(_)
search_result(lines) ==
    IF lines = <<>> THEN NoMatch
    ELSE IF Head(lines).key = "TESTRESULT_RESULT_STRING" THEN Match(Head(lines).val)
    ELSE search_result(Tail(lines))

\* "?(\w+)"? at the start of a value: an optional quote, then a word
match_state_value(val) ==
    LET rest == IF val # <<>> /\ Head(val) = Quote THEN Tail(val) ELSE val
    IN  IF rest # <<>> /\ Head(rest) \notin NonWord THEN Match(<<Head(rest)>>) ELSE NoMatch

\* re.search(r'TESTRESULT_STATE="?(\w+)"?', results): the first line with the
\* key whose value starts with a word, quoted or not
RECURSIVE search_state(_)
search_state(lines) ==
    IF lines = <<>> THEN NoMatch
    ELSE IF Head(lines).key = "TESTRESULT_STATE" /\ match_state_value(Head(lines).val).found
         THEN match_state_value(Head(lines).val)
    ELSE search_state(Tail(lines))

\* The log paths check_beakerlib collects: each file only if it is on disk
beakerlib_logs(test, files) ==
    (IF files.output.exists THEN <<data_path(test, TEST_OUTPUT_FILENAME, FALSE)>> ELSE <<>>)
    \o (IF files.journal.exists THEN <<data_path(test, "journal.txt", FALSE)>> ELSE <<>>)

StateNote(state) == "beakerlib: State '" \o state \o "'"

\* Mutant of beakerlib_fields: a missing state is taken for 'complete'
beakerlib_fields_state_optional(lines) ==
    LET result == search_result(lines)
        state == search_state(lines)
    IN  [found |-> result.found,
         raises |-> IF result.found THEN None ELSE "AttributeError",
         result |-> result.group,
         state |-> IF state.found THEN JoinStr(state.group) ELSE "complete"]

\* check_beakerlib, the second try block: both searches; a search that found
\* nothing gives None, and None.group raises AttributeError
beakerlib_fields(lines) ==
    LET result == search_result(lines)
        state == search_state(lines)
    IN  [found |-> result.found /\ state.found,
         raises |-> IF result.found /\ state.found THEN None ELSE "AttributeError",
         result |-> result.group,
         state |-> JoinStr(state.group)]

\* Mutant of beakerlib_verdict: the state is not looked at
beakerlib_verdict_no_state_check(test, fields, data, files) ==
    IF test.returncode = PROCESS_TIMEOUT
    THEN [data |-> ("result" :> "error") @@ ("note" :> "timeout") @@ data,
          files |-> timeout_hint(test, files)]
    ELSE [data |-> ("result" :> lower(fields.result)) @@ data, files |-> files]

\* Mutant of beakerlib_verdict: the state is looked at before the timeout
beakerlib_verdict_state_first(test, fields, data, files) ==
    IF fields.state # "complete"
    THEN [data |-> ("result" :> "error") @@ ("note" :> StateNote(fields.state)) @@ data,
          files |-> files]
    ELSE IF test.returncode = PROCESS_TIMEOUT
    THEN [data |-> ("result" :> "error") @@ ("note" :> "timeout") @@ data,
          files |-> timeout_hint(test, files)]
    ELSE [data |-> ("result" :> lower(fields.result)) @@ data, files |-> files]

\* check_beakerlib, the final if/elif/else: timeout, then state, then the
\* result string
beakerlib_verdict(test, fields, data, files) ==
    IF test.returncode = PROCESS_TIMEOUT
    THEN [data |-> ("result" :> "error") @@ ("note" :> "timeout") @@ data,
          files |-> timeout_hint(test, files)]
    ELSE IF fields.state # "complete"
    THEN [data |-> ("result" :> "error") @@ ("note" :> StateNote(fields.state)) @@ data,
          files |-> files]
    ELSE [data |-> ("result" :> lower(fields.result)) @@ data, files |-> files]

\* Mutant of check_beakerlib: the timeout is looked at before the results
\* file is read
check_beakerlib_timeout_first(test, files) ==
    LET data == [result |-> "error",
                 log |-> ListVal(beakerlib_logs(test, files)),
                 duration |-> test.real_duration]
        fields == beakerlib_fields(files.results.content)
        verdict == beakerlib_verdict(test, fields, data, files)
    IN  IF test.returncode = PROCESS_TIMEOUT
        THEN Checked(Result(("note" :> "timeout") @@ data, test.name, test.result),
                     timeout_hint(test, files))
        ELSE IF ~files.results.exists
        THEN Checked(Result(("note" :> "beakerlib: TestResults FileError") @@ data,
                            test.name, test.result), files)
        ELSE IF ~fields.found
        THEN Checked(Result(("note" :> "beakerlib: Result/State missing") @@ data,
                            test.name, test.result), files)
        ELSE Checked(Result(verdict.data, test.name, test.result), verdict.files)

\* Mutant of check_beakerlib: the second try block has no except clause
check_beakerlib_fields_unguarded(test, files) ==
    LET data == [result |-> "error",
                 log |-> ListVal(beakerlib_logs(test, files)),
                 duration |-> test.real_duration]
        text == read(files.results)
        fields == beakerlib_fields(text.value)
        verdict == beakerlib_verdict(test, fields, data, files)
    IN  IF text.raises = "FileError"
        THEN Checked(Result(("note" :> "beakerlib: TestResults FileError") @@ data,
                            test.name, test.result), files)
        ELSE IF text.raises # None THEN Raised(text.raises, files)
        ELSE IF fields.raises # None THEN Raised(fields.raises, files)
        ELSE Checked(Result(verdict.data, test.name, test.result), verdict.files)

\* ExecutePlugin.check_beakerlib(test)
check_beakerlib(test, files) ==
    LET data == [result |-> "error",
                 log |-> ListVal(beakerlib_logs(test, files)),
                 duration |-> test.real_duration]
        text == read(files.results)
        fields == beakerlib_fields(text.value)
        verdict == beakerlib_verdict(test, fields, data, files)
    IN  IF text.raises = "FileError"
        THEN Checked(Result(("note" :> "beakerlib: TestResults FileError") @@ data,
                            test.name, test.result), files)
        ELSE IF text.raises # None THEN Raised(text.raises, files)
        ELSE IF fields.raises = "AttributeError"
        THEN Checked(Result(("note" :> "beakerlib: Result/State missing") @@ data,
                            test.name, test.result), files)
        ELSE IF fields.raises # None THEN Raised(fields.raises, files)
        ELSE Checked(Result(verdict.data, test.name, test.result), verdict.files)

----------------------------------------------------------------------------
(* SpecCheck: the checks applied to bounded inputs *)

ExitCodes == (-1 .. MaxExitCode) \cup {PROCESS_TIMEOUT}

ResultValues == {<<"PASS">>, <<"FAIL">>, <<"WARN">>, <<>>}

StateValues == {<<"complete">>, <<Quote, "complete", Quote>>, <<"running">>,
                <<Quote, "incomplete", Quote>>, <<>>, <<Quote, Quote>>}

Lines ==
    {Line("TESTRESULT_RESULT_STRING", v) : v \in ResultValues}
    \cup {Line("TESTRESULT_STATE", v) : v \in StateValues}
    \cup {Line("TESTRESULT_PLUGINS", <<>>)}

TestInputs ==
    [name : {<<"t1">>}, returncode : ExitCodes, real_duration : {"00:00:01"},
     duration : {"5m"}, result : {"respect"}]

OutputFiles == {NoFile, File(<<>>), File(<<"out">>)}

DataFiles ==
    [output : OutputFiles, journal : {NoFile, File(<<>>)},
     results : {NoFile} \cup {File(c) : c \in SeqsUpTo(Lines, MaxLines)}]

\* No single function is exercised
UnitsIdle ==
    /\ unit = "none"
    /\ uin = <<>>
    /\ ust = <<>>
    /\ uout = <<>>

\* The steps play no part in SpecCheck
StepsIdle ==
    /\ plandata = <<>>
    /\ guests = <<>>
    /\ focus = "none"
    /\ myRun = FALSE
    /\ status = <<>>
    /\ stepdata = <<>>
    /\ phases = <<>>
    /\ framework = DEFAULT_FRAMEWORK
    /\ results = <<>>
    /\ stepfile = <<>>
    /\ resultsfile = NoFile
    /\ last = <<>>
    /\ aborts = 0

\* A test has run and left its files; no check has looked at it yet
InitCheck ==
    /\ cop = "none"
    /\ ctest \in TestInputs
    /\ cbefore \in DataFiles
    /\ cfiles = cbefore
    /\ cres = NoResult
    /\ craised = None
    /\ StepsIdle
    /\ UnitsIdle

CheckShell ==
    /\ cop = "none"
    /\ cop' = "shell"
    /\ cfiles' = check_shell(ctest, cfiles).files
    /\ cres' = check_shell(ctest, cfiles).result
    /\ craised' = check_shell(ctest, cfiles).raised
    /\ UNCHANGED <<ctest, cbefore, svars, uvars>>

CheckBeakerlib ==
    /\ cop = "none"
    /\ cop' = "beakerlib"
    /\ cfiles' = check_beakerlib(ctest, cfiles).files
    /\ cres' = check_beakerlib(ctest, cfiles).result
    /\ craised' = check_beakerlib(ctest, cfiles).raised
    /\ UNCHANGED <<ctest, cbefore, svars, uvars>>

NextCheck == CheckShell \/ CheckBeakerlib

SpecCheck == InitCheck /\ [][NextCheck]_vars



----------------------------------------------------------------------------
(* The steps: configuration, plugins and the environment *)

Steps == {"execute", "report"}

\* A configuration record of the execute step: the method, the exit-first
\* option and the guests the phase is limited to (none: every guest)
ExecuteConfigs ==
    {[how |-> "tmt", exitFirst |-> FALSE, where |-> {}],
     [how |-> "beakerlib", exitFirst |-> TRUE, where |-> {}],
     [how |-> "tmt", exitFirst |-> FALSE, where |-> {2}]}

ReportConfigs ==
    {[how |-> "display", exitFirst |-> FALSE, where |-> {}],
     [how |-> "html", exitFirst |-> FALSE, where |-> {}]}

\* The data of a step: one record of C, or 2 .. MaxData records taken from
\* the sequence ds in turn
DataChoices(C, ds) ==
    {<<c>> : c \in C}
    \cup {[i \in 1..n |-> ds[((i - 1) % Len(ds)) + 1]] : n \in 2..MaxData}

\* The methods the plugins of a step register
SupportedMethods(step) == IF step = "execute" THEN {"tmt"} ELSE {"display", "html"}

\* Plugin.delegate(step, data): the plugin of the method data['how'] names,
\* bound to the step and holding a copy of the record
delegate(step, record) ==
    [ok |-> record.how \in SupportedMethods(step), plugin |-> record]

\* Plugin.enabled_on_guest(guest)
enabled_on_guest(phase, guest) == phase.where = {} \/ guest \in phase.where

\* Step.phases(): the phases in their order
phases_of(m, step) == m.phases[step]

\* The exit code of test i on guest g: on the first guest the first test
\* fails and the second ends with an error, on the second guest the other
\* way round, on the third every test passes
GuestRc(g, i) == (g * i) % 3

\* discover.tests() after it ran on guest g
Test(g, i) ==
    [name |-> <<"t" \o ToString(i)>>, returncode |-> GuestRc(g, i),
     real_duration |-> "00:00:01", duration |-> "5m", result |-> "respect"]

\* An execute plugin's go(guest) followed by its results(): one Result for
\* each test it ran on the guest; under exit-first no test is run after the
\* first one whose result is a failure, 'fail' or 'error'
PluginResults(phase, g) ==
    LET all == [i \in 1..MaxTests |-> check_shell(Test(g, i), NoFiles).result]
        failing == {i \in 1..MaxTests : all[i].result \in {"fail", "error"}}
        stop == CHOOSE i \in failing : \A j \in failing : i <= j
    IN  IF phase.exitFirst /\ failing # {} THEN SubSeq(all, 1, stop) ELSE all

----------------------------------------------------------------------------
(* The step objects of the process and the working directory *)

Mem == [status |-> status, data |-> stepdata, phases |-> phases,
        framework |-> framework, results |-> results]

Disk == [stepfile |-> stepfile, resultsfile |-> resultsfile]

NoStepFile == [exists |-> FALSE, status |-> None, data |-> <<>>]

\* What a call returns to the model: the objects and the disk after it, the
\* error it raised (None: it returned), the summary it printed and the
\* phase invocations it made
Ret(m, d, error, summary, calls) ==
    [m |-> m, d |-> d, error |-> error, summary |-> summary, calls |-> calls]

\* One invocation of a phase: the guest (0: none), the number of the phase,
\* the results it returned and whether it raised
Call(guest, phase, returned, raised) ==
    [guest |-> guest, phase |-> phase, returned |-> Len(returned),
     outcomes |-> [i \in 1..Len(returned) |-> returned[i].result], raised |-> raised]

\* Step.save(): status and data go to step.yaml
Step_save(step, m, d) ==
    [d EXCEPT !.stepfile[step] =
        [exists |-> TRUE, status |-> m.status[step], data |-> m.data[step]]]

\* Step.load(): status and data come back from step.yaml, if it is there
Step_load(step, m, d) ==
    IF d.stepfile[step].exists
    THEN [m EXCEPT !.status[step] = d.stepfile[step].status,
                   !.data[step] = d.stepfile[step].data]
    ELSE m

\* Result.export(): the record of one result in the results store
export(result) ==
    [result |-> result.result, log |-> ListVal(result.log),
     duration |-> result.duration, note |-> result.note]

\* dict(pairs): a later pair with a key already there replaces the value in
\* place, any other pair is added at the end
RECURSIVE dict(_)
dict(pairs) ==
    IF pairs = <<>> THEN <<>>
    ELSE LET init == dict(SubSeq(pairs, 1, Len(pairs) - 1))
             item == pairs[Len(pairs)]
             at == {i \in 1..Len(init) : init[i][1] = item[1]}
         IN  IF at = {} THEN Append(init, item)
             ELSE [i \in 1..Len(init) |-> IF i \in at THEN item ELSE init[i]]

\* Execute.save(), the results: a dict from test name to exported result,
\* written to results.yaml
save_results(rs) == dict([i \in 1..Len(rs) |-> <<rs[i].name, export(rs[i])>>])

\* Execute.load(), the results: one Result for each item of results.yaml
load_results(items) ==
    [i \in 1..Len(items) |-> Result(items[i][2], items[i][1], "respect")]

\* Execute.save()
Execute_save(m, d) ==
    [Step_save("execute", m, d) EXCEPT !.resultsfile = File(save_results(m.results))]

\* Execute.load(): a missing results.yaml leaves the results as they are
Execute_load(m, d) ==
    LET m1 == Step_load("execute", m, d)
    IN  IF d.resultsfile.exists
        THEN [m1 EXCEPT !.results = load_results(d.resultsfile.content)]
        ELSE m1

\* Mutant of old_method_framework: the current method is taken for an old
\* shell method as well
old_method_framework_matches_tmt(how) ==
    IF how \in {"tmt", "shell", "shell.tmt", "shell\n", "shell.tmt\n"} THEN "shell"
    ELSE IF how \in {"beakerlib", "beakerlib.tmt", "beakerlib\n", "beakerlib.tmt\n"}
    THEN "beakerlib"
    ELSE None

\* re.search(r"^(shell|beakerlib)(\.tmt)?$", how).group(1), None if nothing
\* matches.  The $ of the pattern matches at the end of the string and also
\* before a newline that ends the string.
old_method_framework(how) ==
    IF how \in {"shell", "shell.tmt", "shell\n", "shell.tmt\n"} THEN "shell"
    ELSE IF how \in {"beakerlib", "beakerlib.tmt", "beakerlib\n", "beakerlib.tmt\n"}
    THEN "beakerlib"
    ELSE None

\* Execute._map_old_methods()
map_old_methods(m) ==
    LET matched == old_method_framework(m.data["execute"][1].how)
    IN  IF matched = None THEN m
        ELSE [m EXCEPT !.data["execute"][1].how = "tmt", !.framework = matched]

\* Execute.__init__ and Step.__init__ of the report step: the objects of a
\* new process
Constructed(pd, run) ==
    LET m == [status |-> [execute |-> None, report |-> None],
              data |-> pd,
              phases |-> [execute |-> <<>>, report |-> <<>>],
              framework |-> DEFAULT_FRAMEWORK,
              results |-> <<>>]
    IN  IF ~run THEN map_old_methods(m) ELSE m

NoSummary == <<>>

\* Execute.summary(): the number of tests executed
Execute_summary(m) == <<Len(m.results)>>

Count(rs, outcome) == Cardinality({i \in 1..Len(rs) : rs[i].result = outcome})

\* Mutant of Report_summary: every result is counted as passed
Report_summary_all_passed(m) == <<Len(m.results), 0, 0>>

\* Report.summary(): Result.summary of the execute step's results, the
\* number of results of each outcome
Report_summary(m) ==
    <<Count(m.results, "pass"), Count(m.results, "fail"), Count(m.results, "error")>>


----------------------------------------------------------------------------
(* wake() *)

\* Mutant of wake_status: the results are dropped as well
wake_status_drops_results(step, m, d) ==
    IF m.status[step] = "done" THEN Ret([m EXCEPT !.results = <<>>], d, None, NoSummary, <<>>)
    ELSE LET m1 == [m EXCEPT !.status[step] = "todo", !.results = <<>>]
         IN  Ret(m1,
                 IF step = "execute" THEN Execute_save(m1, d) ELSE Step_save(step, m1, d),
                 None, NoSummary, <<>>)

\* Mutant of wake_status: every step becomes 'todo' and is saved
wake_status_always_todo(step, m, d) ==
    LET m1 == [m EXCEPT !.status[step] = "todo"]
    IN  Ret(m1,
            IF step = "execute" THEN Execute_save(m1, d) ELSE Step_save(step, m1, d),
            None, NoSummary, <<>>)

\* The end of Execute.wake() and Report.wake(): a step already done is left
\* alone, any other becomes 'todo' and is saved
wake_status(step, m, d) ==
    IF m.status[step] = "done" THEN Ret(m, d, None, NoSummary, <<>>)
    ELSE LET m1 == [m EXCEPT !.status[step] = "todo"]
         IN  Ret(m1,
                 IF step = "execute" THEN Execute_save(m1, d) ELSE Step_save(step, m1, d),
                 None, NoSummary, <<>>)

\* Mutant of Execute_wake: the number of records is checked after the
\* plugin was resolved and appended
Execute_wake_check_after_append(m, d) ==
    LET m1 == map_old_methods(m)
        executor == delegate("execute", m1.data["execute"][1])
        m2 == [m1 EXCEPT !.phases["execute"] = Append(@, executor.plugin)]
    IN  IF ~executor.ok
        THEN Ret(m1, d, "SpecificationError: Unsupported execute method.", NoSummary, <<>>)
        ELSE IF Len(m.data["execute"]) > 1
        THEN Ret(m2, d, "SpecificationError: Multiple execute steps defined.", NoSummary, <<>>)
        ELSE wake_status("execute", m2, d)

\* Execute.wake()
Execute_wake(m, d) ==
    IF Len(m.data["execute"]) > 1
    THEN Ret(m, d, "SpecificationError: Multiple execute steps defined.", NoSummary, <<>>)
    ELSE LET m1 == map_old_methods(m)
             executor == delegate("execute", m1.data["execute"][1])
             m2 == [m1 EXCEPT !.phases["execute"] = Append(@, executor.plugin)]
         IN  IF ~executor.ok
             THEN Ret(m1, d, "SpecificationError: Unsupported execute method.", NoSummary, <<>>)
             ELSE wake_status("execute", m2, d)

\* Mutant of report_plugins: every plugin is resolved from the first record
report_plugins_from_first_record(records, acc) ==
    [ok |-> \A k \in 1..Len(records) : delegate("report", records[k]).ok,
     plugins |-> acc \o [k \in 1..Len(records) |-> delegate("report", records[1]).plugin]]

\* Report.wake(), the loop: one plugin for each record, in order; the first
\* record no plugin is registered for ends the loop with an error
RECURSIVE report_plugins(_, _)
report_plugins(records, acc) ==
    IF records = <<>> THEN [ok |-> TRUE, plugins |-> acc]
    ELSE LET plugin == delegate("report", Head(records))
         IN  IF ~plugin.ok THEN [ok |-> FALSE, plugins |-> acc]
             ELSE report_plugins(Tail(records), Append(acc, plugin.plugin))

\* Report.wake()
Report_wake(m, d) ==
    LET woken == report_plugins(m.data["report"], m.phases["report"])
        m1 == [m EXCEPT !.phases["report"] = woken.plugins]
    IN  IF ~woken.ok
        THEN Ret(m1, d, "SpecificationError: Unsupported report method.", NoSummary, <<>>)
        ELSE wake_status("report", m1, d)

----------------------------------------------------------------------------
(* go() *)

\* The (guest, phase) pairs the loop of Execute.go() visits, guests outside
\* and phases inside, keeping those whose phase is enabled on the guest
EnabledPairs(gs, ps) ==
    LET all == [k \in 1..(Len(gs) * Len(ps)) |->
                   [guest |-> gs[((k - 1) \div Len(ps)) + 1],
                    phase |-> ((k - 1) % Len(ps)) + 1]]
        enabled(pair) == enabled_on_guest(ps[pair.phase], pair.guest)
    IN  SelectSeq(all, enabled)

\* Execute.go() and Report.go() on a step already done: the summary again,
\* and the actions of the step
go_done(step, m, d) ==
    Ret(m, d, None,
        IF step = "execute" THEN Execute_summary(m) ELSE Report_summary(m),
        <<>>)

\* Mutant of no_guests: the guests are not checked
no_guests_not_checked(gs) == FALSE

\* Execute.go(), the guest check
no_guests(gs) == gs = <<>>

\* Mutant of Execute_go_run: a failure under exit-first ends the loop over
\* the guests as well
Execute_go_run_exit_first_ends_loop(m, d, gs, failAt) ==
    LET ps == phases_of(m, "execute")
        every == EnabledPairs(gs, ps)
        stops(k) == /\ ps[every[k].phase].exitFirst
                    /\ \E r \in 1..Len(PluginResults(ps[every[k].phase], every[k].guest)) :
                          PluginResults(ps[every[k].phase], every[k].guest)[r].result
                              \in {"fail", "error"}
        stopping == {k \in 1..Len(every) : stops(k)}
        pairs == IF stopping = {} THEN every
                 ELSE SubSeq(every, 1, CHOOSE k \in stopping : \A j \in stopping : k <= j)
        raised == failAt \in 1..Len(pairs)
        ran == IF raised THEN SubSeq(pairs, 1, failAt - 1) ELSE pairs
        got == [k \in 1..Len(ran) |-> PluginResults(ps[ran[k].phase], ran[k].guest)]
        calls == [k \in 1..Len(ran) |->
                     Call(ran[k].guest, ran[k].phase, got[k], FALSE)]
        m1 == [m EXCEPT !.results = @ \o Flatten(got)]
        m2 == [m1 EXCEPT !.status["execute"] = "done"]
    IN  IF raised
        THEN Ret(m1, d, "Error: phase raised", NoSummary,
                 Append(calls, Call(pairs[failAt].guest, pairs[failAt].phase, <<>>, TRUE)))
        ELSE Ret(m2, Execute_save(m2, d), None, Execute_summary(m1), calls)

\* Execute.go(), the loop and what follows it.  The phase invocation number
\* failAt raises (0: none does); the results of the invocations before it
\* are in the list by then.
Execute_go_run(m, d, gs, failAt) ==
    LET ps == phases_of(m, "execute")
        pairs == EnabledPairs(gs, ps)
        raised == failAt \in 1..Len(pairs)
        ran == IF raised THEN SubSeq(pairs, 1, failAt - 1) ELSE pairs
        got == [k \in 1..Len(ran) |-> PluginResults(ps[ran[k].phase], ran[k].guest)]
        calls == [k \in 1..Len(ran) |->
                     Call(ran[k].guest, ran[k].phase, got[k], FALSE)]
        m1 == [m EXCEPT !.results = @ \o Flatten(got)]
        m2 == [m1 EXCEPT !.status["execute"] = "done"]
    IN  IF raised
        THEN Ret(m1, d, "Error: phase raised", NoSummary,
                 Append(calls, Call(pairs[failAt].guest, pairs[failAt].phase, <<>>, TRUE)))
        ELSE Ret(m2, Execute_save(m2, d), None, Execute_summary(m1), calls)

\* Mutant of Execute_go: the guests are checked before the status
Execute_go_guest_check_first(m, d, gs, failAt) ==
    IF no_guests(gs)
    THEN Ret(m, d, "ExecuteError: No guests available for execution.", NoSummary, <<>>)
    ELSE IF m.status["execute"] = "done" THEN go_done("execute", m, d)
    ELSE Execute_go_run(m, d, gs, failAt)

\* Mutant of Execute_go: no early return for a step already done
Execute_go_no_done_check(m, d, gs, failAt) ==
    IF no_guests(gs)
    THEN Ret(m, d, "ExecuteError: No guests available for execution.", NoSummary, <<>>)
    ELSE Execute_go_run(m, d, gs, failAt)

\* Execute.go()
Execute_go(m, d, gs, failAt) ==
    IF m.status["execute"] = "done" THEN go_done("execute", m, d)
    ELSE IF no_guests(gs)
    THEN Ret(m, d, "ExecuteError: No guests available for execution.", NoSummary, <<>>)
    ELSE Execute_go_run(m, d, gs, failAt)

\* Mutant of Report_go_run: the status is set before the phases run
Report_go_run_status_first(m, d, failAt) ==
    LET ps == phases_of(m, "report")
        raised == failAt \in 1..Len(ps)
        n == IF raised THEN failAt ELSE Len(ps)
        calls == [k \in 1..n |-> Call(0, k, <<>>, raised /\ k = failAt)]
        m1 == [m EXCEPT !.status["report"] = "done"]
    IN  IF raised
        THEN Ret(m1, d, "Error: phase raised", NoSummary, calls)
        ELSE Ret(m1, Step_save("report", m1, d), None, Report_summary(m), calls)

\* Mutant of Report_go_run: the loop ends after the first phase
Report_go_run_first_phase_only(m, d, failAt) ==
    LET ps == phases_of(m, "report")
        raised == failAt = 1 /\ ps # <<>>
        n == IF ps = <<>> THEN 0 ELSE 1
        calls == [k \in 1..n |-> Call(0, k, <<>>, raised /\ k = failAt)]
        m1 == [m EXCEPT !.status["report"] = "done"]
    IN  IF raised
        THEN Ret(m, d, "Error: phase raised", NoSummary, calls)
        ELSE Ret(m1, Step_save("report", m1, d), None, Report_summary(m), calls)

\* Report.go(), the loop and what follows it; phase number failAt raises
Report_go_run(m, d, failAt) ==
    LET ps == phases_of(m, "report")
        raised == failAt \in 1..Len(ps)
        n == IF raised THEN failAt ELSE Len(ps)
        calls == [k \in 1..n |-> Call(0, k, <<>>, raised /\ k = failAt)]
        m1 == [m EXCEPT !.status["report"] = "done"]
    IN  IF raised
        THEN Ret(m, d, "Error: phase raised", NoSummary, calls)
        ELSE Ret(m1, Step_save("report", m1, d), None, Report_summary(m), calls)

\* Report.go()
Report_go(m, d, failAt) ==
    IF m.status["report"] = "done" THEN go_done("report", m, d)
    ELSE Report_go_run(m, d, failAt)

----------------------------------------------------------------------------
(* requires() *)

\* Plugin.requires(): the packages a plugin needs on the guest
plugin_requires(phase) ==
    CASE phase.how = "tmt" -> <<"beakerlib", "rsync">>
      [] phase.how = "html" -> <<"jinja2", "rsync">>
      [] phase.how = "display" -> <<"rsync">>
      [] OTHER -> <<>>

\* set.update(list) for each plugin in turn, starting from set()
RECURSIVE requires_set(_)
requires_set(ps) ==
    IF ps = <<>> THEN {}
    ELSE requires_set(SubSeq(ps, 1, Len(ps) - 1))
         \cup {plugin_requires(ps[Len(ps)])[j] : j \in 1..Len(plugin_requires(ps[Len(ps)]))}

\* list(set): the elements once each, in an order the set chooses
list(S) == {q \in [1..Cardinality(S) -> S] : \A x \in S : \E j \in DOMAIN q : q[j] = x}

\* Mutant of requires: the lists of the plugins one after the other
requires_concatenated(step, m) ==
    {Flatten([k \in 1..Len(phases_of(m, step)) |-> plugin_requires(phases_of(m, step)[k])])}

\* Execute.requires() and Report.requires(): the lists the call may return
requires(step, m) == list(requires_set(phases_of(m, step)))

----------------------------------------------------------------------------
(* Spec: the operations of the two steps, in any order *)

NoLast == [op |-> "none", step |-> "none", was |-> None, error |-> None,
           summary |-> NoSummary, calls |-> <<>>, value |-> <<>>]

Last(op, step, ret) ==
    [op |-> op, step |-> step, was |-> status[step], error |-> ret.error,
     summary |-> ret.summary, calls |-> ret.calls, value |-> <<>>]

SetMem(m) ==
    /\ status' = m.status
    /\ stepdata' = m.data
    /\ phases' = m.phases
    /\ framework' = m.framework
    /\ results' = m.results

SetDisk(d) ==
    /\ stepfile' = d.stepfile
    /\ resultsfile' = d.resultsfile

DefaultConfig(step) ==
    [how |-> IF step = "execute" THEN "tmt" ELSE "display",
     exitFirst |-> FALSE, where |-> {}]

NoDisk == [stepfile |-> [execute |-> NoStepFile, report |-> NoStepFile],
           resultsfile |-> NoFile]

\* The states the execute step is in while the report step is exercised:
\* constructed, woken up, or run to the end
ExecuteAtRest(pd, run, gs) ==
    LET new == Ret(Constructed(pd, run), NoDisk, None, NoSummary, <<>>)
        woken == Execute_wake(new.m, new.d)
        gone == Execute_go(woken.m, woken.d, gs, 0)
    IN  {new, woken, gone}

\* A behaviour exercises one step.  The process has constructed the steps of
\* the plan; when the report step is exercised the execute step has been
\* taken as far as the plan's run took it.
Init ==
    /\ cop = "none"
    /\ ctest = Test(1, 1)
    /\ cbefore = NoFiles
    /\ cfiles = NoFiles
    /\ cres = NoResult
    /\ craised = None
    /\ plandata \in [execute : DataChoices(ExecuteConfigs, <<DefaultConfig("execute")>>),
                     report : DataChoices(ReportConfigs,
                                          <<[DefaultConfig("report") EXCEPT !.how = "html"],
                                            DefaultConfig("report")>>)]
    /\ guests \in {[i \in 1..n |-> i] : n \in 0..MaxGuests}
    /\ focus \in Steps
    /\ myRun \in BOOLEAN
    /\ \E start \in IF focus = "execute"
                    THEN {Ret(Constructed(plandata, myRun), NoDisk, None, NoSummary, <<>>)}
                    ELSE ExecuteAtRest(plandata, myRun, guests) :
           /\ status = start.m.status
           /\ stepdata = start.m.data
           /\ phases = start.m.phases
           /\ framework = start.m.framework
           /\ results = start.m.results
           /\ stepfile = start.d.stepfile
           /\ resultsfile = start.d.resultsfile
    /\ last = NoLast
    /\ aborts = 0
    /\ UnitsIdle

\* plan.provision.guests() in a later process: the guests of the earlier
\* one, or none of them ready any more (the report step never asks)
GuestsLater == IF focus = "execute" THEN {guests, <<>>} ELSE {guests}

\* A later process constructs the plan's steps anew; the working directory
\* is as the earlier process left it
Construct ==
    \E run \in BOOLEAN, gs \in GuestsLater :
        /\ myRun' = run
        /\ guests' = gs
        /\ SetMem(Constructed(plandata, run))
        /\ last' = [NoLast EXCEPT !.op = "construct"]
        /\ UNCHANGED <<cvars, uvars, plandata, focus, diskvars, aborts>>

ExecuteLoad ==
    /\ SetMem(Execute_load(Mem, Disk))
    /\ last' = Last("load", "execute", Ret(Mem, Disk, None, NoSummary, <<>>))
    /\ UNCHANGED <<cvars, uvars, envvars, myRun, diskvars, aborts>>

\* Execute.save(): the status, the data and the results go to the disk; the
\* objects stay as they are
ExecuteSave ==
    /\ SetDisk(Execute_save(Mem, Disk))
    /\ last' = Last("save", "execute", Ret(Mem, Disk, None, NoSummary, <<>>))
    /\ UNCHANGED <<cvars, uvars, envvars, memvars, aborts>>

ExecuteWake ==
    /\ focus = "execute"
    /\ Len(phases["execute"]) < MaxPhases
    /\ LET ret == Execute_wake(Mem, Disk)
       IN  /\ SetMem(ret.m)
           /\ SetDisk(ret.d)
           /\ last' = Last("wake", "execute", ret)
    /\ UNCHANGED <<cvars, uvars, envvars, myRun, aborts>>

ExecuteGo ==
    /\ focus = "execute"
    /\ \E failAt \in 0..Len(EnabledPairs(guests, phases["execute"])) :
        /\ failAt > 0 => /\ aborts < MaxAborts
                         /\ status["execute"] # "done"
        /\ LET ret == Execute_go(Mem, Disk, guests, failAt)
           IN  /\ SetMem(ret.m)
               /\ SetDisk(ret.d)
               /\ last' = Last("go", "execute", ret)
               /\ aborts' = IF failAt > 0 THEN aborts + 1 ELSE aborts
        /\ UNCHANGED <<cvars, uvars, envvars, myRun>>

ReportLoad ==
    /\ focus = "report"
    /\ SetMem(Step_load("report", Mem, Disk))
    /\ last' = Last("load", "report", Ret(Mem, Disk, None, NoSummary, <<>>))
    /\ UNCHANGED <<cvars, uvars, envvars, myRun, diskvars, aborts>>

ReportWake ==
    /\ focus = "report"
    /\ Len(phases["report"]) + Len(stepdata["report"]) <= MaxPhases
    /\ LET ret == Report_wake(Mem, Disk)
       IN  /\ SetMem(ret.m)
           /\ SetDisk(ret.d)
           /\ last' = Last("wake", "report", ret)
    /\ UNCHANGED <<cvars, uvars, envvars, myRun, aborts>>

ReportGo ==
    /\ focus = "report"
    /\ \E failAt \in 0..Len(phases["report"]) :
        /\ failAt > 0 => /\ aborts < MaxAborts
                         /\ status["report"] # "done"
        /\ LET ret == Report_go(Mem, Disk, failAt)
           IN  /\ SetMem(ret.m)
               /\ SetDisk(ret.d)
               /\ last' = Last("go", "report", ret)
               /\ aborts' = IF failAt > 0 THEN aborts + 1 ELSE aborts
        /\ UNCHANGED <<cvars, uvars, envvars, myRun>>

ExecuteRequires ==
    /\ focus = "execute"
    /\ \E value \in requires("execute", Mem) :
           last' = [Last("requires", "execute", Ret(Mem, Disk, None, NoSummary, <<>>))
                       EXCEPT !.value = value]
    /\ UNCHANGED <<cvars, uvars, envvars, memvars, diskvars, aborts>>

ReportRequires ==
    /\ focus = "report"
    /\ \E value \in requires("report", Mem) :
           last' = [Last("requires", "report", Ret(Mem, Disk, None, NoSummary, <<>>))
                       EXCEPT !.value = value]
    /\ UNCHANGED <<cvars, uvars, envvars, memvars, diskvars, aborts>>

Next ==
    \/ Construct
    \/ ExecuteLoad
    \/ ExecuteSave
    \/ ExecuteWake
    \/ ExecuteGo
    \/ ReportLoad
    \/ ReportWake
    \/ ReportGo
    \/ ExecuteRequires
    \/ ReportRequires

Spec == Init /\ [][Next]_vars

----------------------------------------------------------------------------
(* SpecUnit: single functions applied to bounded inputs *)

\* The classification and the steps play no part in SpecUnit
OthersIdle ==
    /\ cop = "none"
    /\ ctest = Test(1, 1)
    /\ cbefore = NoFiles
    /\ cfiles = NoFiles
    /\ cres = NoResult
    /\ craised = None
    /\ StepsIdle

\* The 'how' values of an execute step: the current method, the four old
\* ones, and values that are none of them
HowValues ==
    {"tmt", "shell", "shell.tmt", "beakerlib", "beakerlib.tmt",
     "Shell", "shell.tmt.tmt", "beakerlib.shell", "beakerlib.tmt\n", ""}

\* An execute step as its constructor leaves it when the plan has a run: the
\* record of the plan's metadata and the default framework
RawStep(how, exitFirst) ==
    Constructed([execute |-> <<[how |-> how, exitFirst |-> exitFirst, where |-> {}]>>,
                 report |-> <<DefaultConfig("report")>>], TRUE)

InitNormalize ==
    /\ unit = "normalize"
    /\ \E how \in HowValues, exitFirst \in BOOLEAN :
           /\ uin = [how |-> how, exitFirst |-> exitFirst]
           /\ ust = RawStep(how, exitFirst)
    /\ uout = 0

\* Execute._map_old_methods(), as the constructor and wake() call it
MapOldMethods ==
    /\ unit = "normalize"
    /\ uout < MaxCalls
    /\ ust' = map_old_methods(ust)
    /\ uout' = uout + 1
    /\ UNCHANGED <<cvars, svars, unit, uin>>

\* Mutant of script_pushes: the script is pushed to its path only
script_pushes_path_only(script, guest) ==
    <<[guest |-> guest,
       source |-> <<SCRIPTS_SRC_DIR, basename(script.path)>>,
       destination |-> script.path,
       options |-> <<"-p", "--chmod=755">>]>>

\* ExecutePlugin.prepare_scripts(), the body of the outer loop: the script's
\* file in the scripts source directory is pushed to the script's path and
\* to each alias, in this order
script_pushes(script, guest) ==
    LET source == <<SCRIPTS_SRC_DIR, basename(script.path)>>
        dests  == <<script.path>> \o script.aliases
    IN  [i \in 1..Len(dests) |->
            [guest |-> guest,
             source |-> source,
             destination |-> dests[i],
             options |-> <<"-p", "--chmod=755">>]]

\* ExecutePlugin.prepare_scripts(guest): the assertion, then the pushes of
\* every script in the order of the scripts
prepare_scripts(scripts, guest) ==
    IF scripts.none \/ scripts.items = <<>>
    THEN [raises |-> "AssertionError", pushes |-> <<>>]
    ELSE [raises |-> None,
          pushes |-> Flatten([k \in 1..Len(scripts.items) |->
                                 script_pushes(scripts.items[k], guest)])]

\* The scripts of an executor: with two aliases, with one, with none
ScriptValues ==
    {Script(<<"usr", "local", "bin", "tmt-reboot">>,
            << <<"usr", "local", "bin", "rstrnt-reboot">>,
               <<"usr", "local", "bin", "rhts-reboot">> >>),
     Script(<<"usr", "local", "bin", "tmt-file-submit">>,
            << <<"usr", "local", "bin", "rstrnt-report-log">> >>),
     Script(<<"usr", "local", "bin", "tmt-abort">>, <<>>)}

\* ExecutePlugin.scripts: None, as the class leaves it, or a tuple
ScriptsValues ==
    {[none |-> TRUE, items |-> <<>>]}
    \cup {[none |-> FALSE, items |-> t] : t \in SeqsUpTo(ScriptValues, MaxScripts)}

InitScripts ==
    /\ unit = "scripts"
    /\ \E scripts \in ScriptsValues, guest \in 1..MaxGuests :
           uin = [scripts |-> scripts, guest |-> guest]
    /\ ust = <<>>
    /\ uout = [called |-> FALSE, raises |-> None, pushes |-> <<>>]

\* One call of prepare_scripts(guest); ust is what the guest was sent
PrepareScripts ==
    /\ unit = "scripts"
    /\ ~uout.called
    /\ LET r == prepare_scripts(uin.scripts, uin.guest)
       IN  /\ ust' = r.pushes
           /\ uout' = [called |-> TRUE, raises |-> r.raises, pushes |-> r.pushes]
    /\ UNCHANGED <<cvars, svars, unit, uin>>

\* os.makedirs(path): the directory and every missing parent are made; a
\* directory that is there already raises
makedirs(dirs, path) ==
    IF path \in dirs
    THEN [dirs |-> dirs, raises |-> "FileExistsError"]
    ELSE [dirs |-> dirs \cup {SubSeq(path, 1, k) : k \in 1..Len(path)},
          raises |-> None]

\* ExecutePlugin.data_path(test, create=create), with no filename: the
\* directories under the workdir after the call, what the call raised and
\* the path it returned
data_path_create(dirs, test, create) ==
    LET directory == <<TEST_DATA>> \o test.name
    IN  IF create /\ directory \notin dirs
        THEN LET made == makedirs(dirs, directory \o <<TEST_DATA>>)
             IN  [dirs |-> made.dirs, raises |-> made.raises, value |-> directory]
        ELSE [dirs |-> dirs, raises |-> None, value |-> directory]

\* Names of tests, two of them under the name of another
DataTestNames == {<<"a">>, <<"a", "b">>, <<"c">>, <<"c", "data">>}

InitDataPath ==
    /\ unit = "datapath"
    /\ uin = [name |-> <<>>, create |-> FALSE]
    /\ ust = [dirs |-> {}, created |-> {}]
    /\ uout = [calls |-> 0, raises |-> None, value |-> <<>>]

\* One call of data_path(test, create=create); ust holds the directories of
\* the workdir and the tests that were passed with create
DataPath ==
    /\ unit = "datapath"
    /\ uout.calls < MaxCalls
    /\ \E name \in DataTestNames, create \in BOOLEAN :
           LET r == data_path_create(ust.dirs, [name |-> name], create)
           IN  /\ uin' = [name |-> name, create |-> create]
               /\ ust' = [dirs |-> r.dirs,
                          created |-> IF create THEN ust.created \cup {name}
                                      ELSE ust.created]
               /\ uout' = [calls |-> uout.calls + 1, raises |-> r.raises,
                           value |-> r.value]
    /\ UNCHANGED <<cvars, svars, unit>>

\* find_general_plan(component), under its lru_cache: a call with a component
\* that returned before returns the same plan and searches nothing; else
\* the search by component, the search by name when that found nothing, and
\* the first plan found
find_general_plan(cache, component, nitrate, byComponent, byName) ==
    IF cache[component] # 0
    THEN [cache |-> cache, searched |-> FALSE, raises |-> None,
          value |-> cache[component]]
    ELSE IF ~nitrate
    THEN [cache |-> cache, searched |-> FALSE, raises |-> "AssertionError",
          value |-> 0]
    ELSE LET found == IF byComponent # <<>> THEN byComponent ELSE byName
         IN  IF found = <<>>
             THEN [cache |-> cache, searched |-> TRUE, raises |-> "NitrateError",
                   value |-> 0]
             ELSE [cache |-> [cache EXCEPT ![component] = found[1]],
                   searched |-> TRUE, raises |-> None, value |-> found[1]]

\* Components tests belong to
Components == {"bash", "zsh"}

\* What a search returns: up to MaxPlans plans, each once
Found ==
    {f \in SeqsUpTo(1..MaxPlans, MaxPlans) :
        \A i, j \in 1..Len(f) : i # j => f[i] # f[j]}

InitGeneral ==
    /\ unit = "general"
    /\ uin = [component |-> "bash", nitrate |-> FALSE,
              byComponent |-> <<>>, byName |-> <<>>]
    /\ ust = [bash |-> 0, zsh |-> 0]
    /\ uout = [calls |-> 0, searched |-> FALSE, raises |-> None, value |-> 0]

\* One call of find_general_plan(component); ust is the cache, and the
\* plans the server holds are whatever they are at the time of the call
FindGeneralPlan ==
    /\ unit = "general"
    /\ uout.calls < MaxCalls
    /\ \E component \in Components, nitrate \in BOOLEAN,
          byComponent \in Found, byName \in Found :
           LET r == find_general_plan(ust, component, nitrate, byComponent, byName)
           IN  /\ uin' = [component |-> component, nitrate |-> nitrate,
                          byComponent |-> byComponent, byName |-> byName]
               /\ ust' = r.cache
               /\ uout' = [calls |-> uout.calls + 1, searched |-> r.searched,
                           raises |-> r.raises, value |-> r.value]
    /\ UNCHANGED <<cvars, svars, unit>>

\* int(b['ext_bz_bug_id']): the number a string of digits stands for
IntOf(digits) ==
    CASE digits = "12" -> 12
      [] digits = "012" -> 12
      [] digits = "34" -> 34

\* bz_set_coverage: the flags of a bug, each as name + status
flag_names(bug) == {bug.flags[i].name \o bug.flags[i].status : i \in 1..Len(bug.flags)}

\* bz_set_coverage: the cases the bug is linked to in the external tracker
\* of the test case management system
linked_cases(bug) ==
    {IntOf(bug.external_bugs[i].ext_bz_bug_id) :
        i \in {j \in 1..Len(bug.external_bugs) :
                  bug.external_bugs[j].ext_bz_id = EXTERNAL_TRACKER_ID}}

\* bz_set_coverage, the loop from bug number k on.  outcomes[k] tells how
\* the server answers the requests for bug k: the flag update returns, or
\* raises xmlrpc.client.Fault, or raises another error (ProtocolError); the
\* link request returns or raises.  acc holds the requests made so far.
RECURSIVE bz_bugs(_, _, _, _, _)
bz_bugs(bugs, case_id, outcomes, k, acc) ==
    IF k > Len(bugs) THEN acc
    ELSE LET bug == bugs[k]
             flag == "qe_test_coverage+" \notin flag_names(bug)
             link == case_id \notin linked_cases(bug)
             a1 == IF flag THEN [acc EXCEPT !.flagUpdates = Append(@, bug.id)] ELSE acc
             a2 == IF link THEN [a1 EXCEPT !.links = Append(@, bug.id)] ELSE a1
             a3 == [a2 EXCEPT !.processed = @ + 1,
                              !.overall_pass = @ /\ ~(link /\ outcomes[k].link # "ok")]
         IN  IF flag /\ outcomes[k].flag \notin {"ok", "Fault"}
             THEN [a1 EXCEPT !.raises = outcomes[k].flag]
             ELSE bz_bugs(bugs, case_id, outcomes, k + 1, a3)

\* bz_set_coverage(bz_instance, bug_ids, case_id); bugs is what Bug.get
\* returns for bug_ids
bz_set_coverage(bugs, case_id, outcomes) ==
    LET done == bz_bugs(bugs, case_id, outcomes, 1,
                        [flagUpdates |-> <<>>, links |-> <<>>, processed |-> 0,
                         overall_pass |-> TRUE, raises |-> None])
    IN  IF done.raises = None /\ ~done.overall_pass
        THEN [done EXCEPT !.raises = "ConvertError"]
        ELSE done

\* The flags of a bug: none, the coverage flag set, the coverage flag
\* requested beside another flag that is set
FlagLists ==
    {<<>>,
     <<[name |-> "qe_test_coverage", status |-> "+"]>>,
     <<[name |-> "qe_test_coverage", status |-> "?"],
       [name |-> "needinfo", status |-> "+"]>>}

\* The case of the calls
CoverageCase == 12

\* The external bugs of a bug: linked to the case, or linked to another
\* case and to number 12 of another tracker
ExternalLists ==
    {<<[ext_bz_id |-> EXTERNAL_TRACKER_ID, ext_bz_bug_id |-> "012"]>>,
     <<[ext_bz_id |-> 5, ext_bz_bug_id |-> "12"],
       [ext_bz_id |-> EXTERNAL_TRACKER_ID, ext_bz_bug_id |-> "34"]>>}

\* How the server answers the two requests for one bug
Outcomes ==
    {[flag |-> "ok", link |-> "ok"],
     [flag |-> "Fault", link |-> "ok"],
     [flag |-> "ok", link |-> "Exception"],
     [flag |-> "Fault", link |-> "Exception"],
     [flag |-> "ProtocolError", link |-> "ok"]}

InitCoverage ==
    /\ unit = "coverage"
    /\ \E n \in 0..MaxBugs :
         \E flags \in [1..n -> FlagLists], external \in [1..n -> ExternalLists],
            outcomes \in [1..n -> Outcomes] :
              uin = [bugs |-> [k \in 1..n |->
                                  [id |-> k, flags |-> flags[k],
                                   external_bugs |-> external[k]]],
                     case_id |-> CoverageCase,
                     outcomes |-> outcomes]
    /\ ust = [flagUpdates |-> <<>>, links |-> <<>>]
    /\ uout = [called |-> FALSE, raises |-> None, processed |-> 0]

\* One call of bz_set_coverage; ust is the requests Bugzilla received
BzSetCoverage ==
    /\ unit = "coverage"
    /\ ~uout.called
    /\ LET r == bz_set_coverage(uin.bugs, uin.case_id, uin.outcomes)
       IN  /\ ust' = [flagUpdates |-> r.flagUpdates, links |-> r.links]
           /\ uout' = [called |-> TRUE, raises |-> r.raises, processed |-> r.processed]
    /\ UNCHANGED <<cvars, svars, unit, uin>>

\* A write to a remote service or to the metadata file, made if the
\* condition holds
W(cond, names) == IF cond THEN names ELSE <<>>

\* Mutant of case_status: a disabled test is set to DISABLED whatever the
\* current status
case_status_disables_any(enabled, current) ==
    IF enabled THEN [set |-> TRUE, status |-> "CONFIRMED"]
    ELSE [set |-> TRUE, status |-> "DISABLED"]

\* export_to_nitrate, the status: what the case is to be set to, and
\* whether it is assigned at all
case_status(enabled, current) ==
    IF enabled THEN [set |-> TRUE, status |-> "CONFIRMED"]
    ELSE IF current = "CONFIRMED" THEN [set |-> TRUE, status |-> "DISABLED"]
    ELSE [set |-> FALSE, status |-> current]

\* Mutant of add_to_nitrate_runs: dry mode is not looked at
add_to_nitrate_runs_ignores_dry(has_case, remote, dry_mode) ==
    [raises |-> None,
     writes |-> W(remote.openRun, <<"case.testplans.add", "CaseRun()">>)]

\* add_to_nitrate_runs(nitrate_case, general_plan, test, dry_mode), for a
\* general plan with at most one child plan with one open run: the case is
\* linked to the child plan unless it is linked already, and to the run
\* unless it is in it already; without a case both are tried, and outside
\* dry mode the first write on the missing case raises
add_to_nitrate_runs(has_case, remote, dry_mode) ==
    LET to_plan == ~has_case \/ ~remote.linked
        to_run  == ~has_case \/ ~remote.linked
    IN  IF ~remote.openRun THEN [raises |-> None, writes |-> <<>>]
        ELSE IF to_plan /\ ~dry_mode /\ ~has_case
        THEN [raises |-> "AttributeError", writes |-> <<>>]
        ELSE [raises |-> None,
              writes |-> W(to_plan /\ ~dry_mode, <<"case.testplans.add">>)
                         \o W(to_run /\ ~dry_mode, <<"CaseRun()">>)]

\* export_to_nitrate, the loop over the components of the test; an error
\* of add_to_nitrate_runs other than NitrateError ends it
RECURSIVE component_writes(_, _, _, _, _, _)
component_writes(components, general, link_runs, dry_mode, has_case, remote) ==
    IF components = <<>> THEN [raises |-> None, writes |-> <<>>]
    ELSE LET added == W(~dry_mode, <<"case.components.add">>)
             linked == IF general /\ remote.planFound
                       THEN W(~dry_mode, <<"case.testplans.add">>)
                       ELSE <<>>
             runs == IF general /\ remote.planFound /\ link_runs
                     THEN add_to_nitrate_runs(has_case, remote, dry_mode)
                     ELSE [raises |-> None, writes |-> <<>>]
             rest == component_writes(Tail(components), general, link_runs,
                                      dry_mode, has_case, remote)
         IN  IF runs.raises # None
             THEN [raises |-> runs.raises, writes |-> added \o linked \o runs.writes]
             ELSE [raises |-> rest.raises,
                   writes |-> added \o linked \o runs.writes \o rest.writes]

\* export_to_nitrate(test) under the options opt, with the server as remote
\* describes it: what it raised, the writes it made in order, the status of
\* the case afterwards (None when there is no case) and the status it
\* printed
export_to_nitrate(opt, test, remote) ==
    LET general  == opt.general \/ opt.link_runs
        dry_mode == opt.dry
        found    == /\ ~opt.duplicate
                    /\ test.component # <<>>
                    /\ remote.planFound
                    /\ remote.foundByFmf
        created  == ~test.hasId /\ ~found /\ ~dry_mode
        has_case == test.hasId \/ found \/ created
        current  == IF has_case THEN remote.status ELSE "CONFIRMED"
        decided  == case_status(test.enabled, current)
        \* a case this call creates has no plan and is in no run before the
        \* call links it
        server   == IF created
                    THEN [remote EXCEPT !.stalePlan = FALSE, !.linked = FALSE]
                    ELSE remote
        comps    == component_writes(test.component, general, opt.link_runs,
                                     dry_mode, has_case, server)
        before ==
            W(created, <<"TestCase()">>)
            \o W(~dry_mode, <<"case.summary">>)
            \o W(test.extra_task /\ ~dry_mode, <<"case.script">>)
            \o W(~dry_mode, <<"case.components.clear">>)
            \o comps.writes
        after ==
            W(general /\ has_case /\ server.stalePlan /\ ~dry_mode,
              <<"case.testplans.remove">>)
            \o W(~dry_mode, <<"case.tags.clear", "case.tags.add">>)
            \o W(test.contact /\ ~dry_mode, <<"case.tester">>)
            \o W(~dry_mode, <<"case.time">>)
            \o W(~dry_mode, <<"case.automated">>)
            \o W(decided.set /\ ~dry_mode, <<"case.status">>)
            \o W(~dry_mode, <<"case.arguments">>)
            \o W(~dry_mode, <<"case.notes">>)
            \o W(test.md /\ ~dry_mode, <<"TestCase.store_text">>)
            \o W(~test.hasId /\ ~dry_mode, <<"extra-nitrate">>)
            \o Flatten([k \in 1..Len(test.verifies) |-> W(~dry_mode, <<"case.bugs.add">>)])
            \o W(~dry_mode, <<"case.update">>)
            \o W(opt.bugzilla /\ test.verifies # <<>> /\ ~dry_mode,
                  <<"bz_set_coverage">>)
    IN  IF ~test.hasId /\ ~opt.create
        THEN [raises |-> "ConvertError", writes |-> <<>>,
              status |-> None, echoed |-> None]
        ELSE IF comps.raises # None
        THEN [raises |-> comps.raises, writes |-> before,
              status |-> IF has_case THEN remote.status ELSE None,
              echoed |-> None]
        ELSE [raises |-> None, writes |-> before \o after,
              status |-> IF ~has_case THEN None
                         ELSE IF ~dry_mode THEN decided.status
                         ELSE remote.status,
              echoed |-> decided.status]

\* The options of tmt test export --nitrate
Options ==
    [create : BOOLEAN, general : BOOLEAN, link_runs : BOOLEAN,
     duplicate : BOOLEAN, bugzilla : BOOLEAN, dry : BOOLEAN]

\* Tests: with nothing optional, with everything, with components only, with
\* verified bugs only; each with and without a case id, enabled and disabled
ExportTests ==
    {[hasId |-> hasId, enabled |-> enabled, extra_task |-> shape = "rich",
      component |-> IF shape \in {"rich", "components"} THEN <<"bash">> ELSE <<>>,
      contact |-> shape = "rich", environment |-> shape = "rich",
      md |-> shape = "rich",
      verifies |-> IF shape \in {"rich", "bugs"} THEN <<1>> ELSE <<>>] :
        hasId \in BOOLEAN, enabled \in BOOLEAN,
        shape \in {"bare", "rich", "components", "bugs"}}

\* The statuses of a test case
CaseStatuses == {"CONFIRMED", "DISABLED", "NEED_UPDATE"}

\* The server: the status of the case, whether a case with the same fmf id
\* exists, and whether the component has a general plan, the case another
\* general plan, the general plan a child plan with an open run, and the
\* case linked to that child plan and in that run already; the last three
\* are about a case that was there before the call
Remotes ==
    {[status |-> st, foundByFmf |-> f, planFound |-> busy, stalePlan |-> busy,
      openRun |-> busy, linked |-> l] :
        st \in CaseStatuses, f \in BOOLEAN, busy \in BOOLEAN, l \in BOOLEAN}

InitExport ==
    /\ unit = "export"
    /\ \E opt \in Options, test \in ExportTests, remote \in Remotes :
           uin = [opt |-> opt, test |-> test, remote |-> remote]
    /\ ust = <<>>
    /\ uout = [called |-> FALSE, raises |-> None, status |-> None, echoed |-> None]

\* One call of export_to_nitrate(test); ust is the writes it made
ExportToNitrate ==
    /\ unit = "export"
    /\ ~uout.called
    /\ LET r == export_to_nitrate(uin.opt, uin.test, uin.remote)
       IN  /\ ust' = r.writes
           /\ uout' = [called |-> TRUE, raises |-> r.raises, status |-> r.status,
                       echoed |-> r.echoed]
    /\ UNCHANGED <<cvars, svars, unit, uin>>

InitUnit ==
    /\ OthersIdle
    /\ \/ InitNormalize
       \/ InitScripts
       \/ InitDataPath
       \/ InitGeneral
       \/ InitCoverage
       \/ InitExport

NextUnit ==
    \/ MapOldMethods
    \/ PrepareScripts
    \/ DataPath
    \/ FindGeneralPlan
    \/ BzSetCoverage
    \/ ExportToNitrate

SpecUnit == InitUnit /\ [][NextUnit]_vars

----------------------------------------------------------------------------
(* Claims about the classification, checked under SpecCheck *)

\* The text of a results file holds the key somewhere
HasKey(lines, key) == \E i \in 1..Len(lines) : lines[i].key = key

\* The fields check_beakerlib parsed from the file it was given
ParsedFields == beakerlib_fields(cbefore.results.content)

\* C5: check_shell classifies by exit code: 'pass' iff the code is 0, 'fail'
\* iff it is 1, 'error' for every other code; the timeout sentinel carries
\* the note 'timeout'.
C5_ShellClassifiesByExitCode ==
    cop = "shell" =>
        /\ cres.result = "pass" <=> ctest.returncode = 0
        /\ cres.result = "fail" <=> ctest.returncode = 1
        /\ ctest.returncode \notin {0, 1} => cres.result = "error"
        /\ ctest.returncode = PROCESS_TIMEOUT => cres.note = "timeout"

C5_Witness ==
    /\ cop = "shell"
    /\ ctest.returncode = PROCESS_TIMEOUT
    /\ cres.result = "error"
    /\ cres.note = "timeout"

\* C6: a readable results file that lacks TESTRESULT_STATE or lacks
\* TESTRESULT_RESULT_STRING gives 'error' with the missing-field note,
\* whatever the other field holds and whatever the return code is.
C6_MissingFieldIsError ==
    (/\ cop = "beakerlib"
     /\ cbefore.results.exists
     /\ \/ ~HasKey(cbefore.results.content, "TESTRESULT_STATE")
        \/ ~HasKey(cbefore.results.content, "TESTRESULT_RESULT_STRING"))
    => /\ cres.result = "error"
       /\ cres.note = "beakerlib: Result/State missing"

C6_Witness ==
    /\ cop = "beakerlib"
    /\ cbefore.results.exists
    /\ ~HasKey(cbefore.results.content, "TESTRESULT_STATE")
    /\ cbefore.results.content = <<Line("TESTRESULT_RESULT_STRING", <<"PASS">>)>>
    /\ ctest.returncode = PROCESS_TIMEOUT
    /\ cres.note = "beakerlib: Result/State missing"

\* C7: with both fields parsed and no timeout, a state other than 'complete'
\* gives 'error' with a note naming the state, not the result string; the
\* outcome is the lower-cased result string only when the state is 'complete'.
C7_StateDecidesBeforeResult ==
    (/\ cop = "beakerlib"
     /\ cbefore.results.exists
     /\ ParsedFields.found
     /\ ctest.returncode # PROCESS_TIMEOUT)
    => IF ParsedFields.state = "complete"
       THEN cres.result = lower(ParsedFields.result) /\ cres.note = None
       ELSE cres.result = "error" /\ cres.note = StateNote(ParsedFields.state)

C7_Witness ==
    /\ cop = "beakerlib"
    /\ cbefore.results.content =
           <<Line("TESTRESULT_RESULT_STRING", <<"PASS">>),
             Line("TESTRESULT_STATE", <<"running">>)>>
    /\ ctest.returncode = 0
    /\ cres.result = "error"
    /\ cres.note = "beakerlib: State 'running'"

\* C8: with both fields parsed, the timeout sentinel gives 'error' with the
\* note 'timeout' for every state, 'complete' with a passing result included.
C8_TimeoutWinsOverState ==
    (/\ cop = "beakerlib"
     /\ cbefore.results.exists
     /\ ParsedFields.found
     /\ ctest.returncode = PROCESS_TIMEOUT)
    => cres.result = "error" /\ cres.note = "timeout"

C8_Witness ==
    /\ cop = "beakerlib"
    /\ cbefore.results.content =
           <<Line("TESTRESULT_RESULT_STRING", <<"PASS">>),
             Line("TESTRESULT_STATE", <<Quote, "complete", Quote>>)>>
    /\ ctest.returncode = PROCESS_TIMEOUT
    /\ cres.note = "timeout"

\* C9: an unreadable results file gives 'error' with the missing-results
\* note for every return code; nothing is parsed, no timeout note is set and
\* no hint is written.
C9_UnreadableResultsIsError ==
    (cop = "beakerlib" /\ ~cbefore.results.exists)
    => /\ cres.result = "error"
       /\ cres.note = "beakerlib: TestResults FileError"
       /\ cfiles = cbefore

C9_Witness ==
    /\ cop = "beakerlib"
    /\ ~cbefore.results.exists
    /\ ctest.returncode = PROCESS_TIMEOUT
    /\ cres.note = "beakerlib: TestResults FileError"
    /\ cfiles.output = cbefore.output

\* C15: every Result of check_shell and check_beakerlib has an outcome that
\* is 'pass', 'fail' or 'error', for every return code and every results
\* file.
C15_OutcomeIsPassFailOrError ==
    (cop # "none" /\ craised = None) => cres.result \in {"pass", "fail", "error"}

\* The test has a problem its check is to record in the Result: for a shell
\* test an exit code other than 0 and 1; for a beakerlib test a timeout, a
\* results file that cannot be read or lacks a field, or a state other than
\* 'complete'
ResultLevelProblem ==
    \/ /\ cop = "shell"
       /\ ctest.returncode \notin {0, 1}
    \/ /\ cop = "beakerlib"
       /\ \/ ctest.returncode = PROCESS_TIMEOUT
          \/ ~cbefore.results.exists
          \/ ~ParsedFields.found
          \/ ParsedFields.state # "complete"

\* C19: no check raises: each returns one Result, of the test it was given,
\* and a result-level problem is recorded in it as the outcome 'error'.
C19_ChecksReturnAResult ==
    cop # "none" =>
        /\ craised = None
        /\ cres.name = ctest.name
        /\ ResultLevelProblem => cres.result = "error"

C19_Witness ==
    /\ cop = "beakerlib"
    /\ cbefore.results.content = <<Line("TESTRESULT_STATE", <<Quote, Quote>>)>>
    /\ ctest.returncode = 2
    /\ craised = None
    /\ cres.name = <<"t1">>
    /\ cres.result = "error"

\* C20: check_shell sets a note and writes to the output log only for the
\* timeout sentinel: then the note is 'timeout' and the hint is appended
\* once after what the log held; for any other exit code there is no note
\* and no file is touched.
C20_HintOnlyOnTimeout ==
    cop = "shell" =>
        IF ctest.returncode = PROCESS_TIMEOUT
        THEN /\ cres.note = "timeout"
             /\ cfiles.output.exists
             /\ cfiles.output.content = cbefore.output.content \o <<HintText(ctest)>>
             /\ cfiles.journal = cbefore.journal
             /\ cfiles.results = cbefore.results
        ELSE /\ cres.note = None
             /\ cfiles = cbefore

C20_Witness ==
    /\ cop = "shell"
    /\ ctest.returncode = PROCESS_TIMEOUT
    /\ cbefore.output = File(<<"out">>)
    /\ cfiles.output.content = <<"out", HintText(ctest)>>
    /\ cres.note = "timeout"


----------------------------------------------------------------------------
(* Claims about the steps, checked under Spec *)

\* The summary a step prints for the results the execute step holds
SummaryOf(step, rs) ==
    IF step = "execute" THEN <<Len(rs)>>
    ELSE <<Cardinality({i \in 1..Len(rs) : rs[i].result = "pass"}),
           Cardinality({i \in 1..Len(rs) : rs[i].result = "fail"}),
           Cardinality({i \in 1..Len(rs) : rs[i].result = "error"})>>

\* The last call was go() on the step, which it found in a status of the set
WasGo(l, step, found) == l.op = "go" /\ l.step = step /\ l.was \in found

NotDone == {None, "todo"}

\* The invocations of the last go(): each phase once on each guest it is
\* enabled on, none raising, and no other invocation
RanEveryPhase(l, step, gs, ps) ==
    /\ \A k \in 1..Len(l.calls) : ~l.calls[k].raised
    /\ IF step = "execute"
       THEN /\ \A i \in 1..Len(gs), p \in 1..Len(ps) :
                  Cardinality({k \in 1..Len(l.calls) :
                                  l.calls[k].guest = gs[i] /\ l.calls[k].phase = p})
                  = IF enabled_on_guest(ps[p], gs[i]) THEN 1 ELSE 0
            /\ \A k \in 1..Len(l.calls) :
                  /\ l.calls[k].phase \in 1..Len(ps)
                  /\ \E i \in 1..Len(gs) : gs[i] = l.calls[k].guest
       ELSE /\ Len(l.calls) = Len(ps)
            /\ \A k \in 1..Len(ps) : l.calls[k].phase = k

\* C1: go() on an Execute or Report step already 'done' invokes no phase,
\* leaves the results, the store and the status as they are and prints the
\* summary of the results; a second go() right after it changes nothing.
C1_GoOnDoneStepIsIdempotent ==
    [][\A s \in Steps :
         /\ WasGo(last', s, {"done"}) =>
               /\ UNCHANGED <<status, stepdata, phases, framework, results>>
               /\ UNCHANGED <<stepfile, resultsfile>>
               /\ last'.calls = <<>>
               /\ last'.error = None
               /\ last'.summary = SummaryOf(s, results)
         /\ (WasGo(last, s, {"done"}) /\ WasGo(last', s, {"done"})) => UNCHANGED vars
      ]_vars

C1_Witness ==
    /\ WasGo(last, "execute", {"done"})
    /\ status["execute"] = "done"
    /\ results # <<>>
    /\ last.summary = <<Len(results)>>
    /\ last.calls = <<>>

\* C2: Execute.go() on a step not 'done' invokes each phase exactly once on
\* each guest it is enabled on and on no other, and when it returns the
\* number of results is the sum of the numbers the invocations returned.
C2_GuestFanOutAndResultCount ==
    (WasGo(last, "execute", NotDone) /\ last.error = None) =>
        /\ RanEveryPhase(last, "execute", guests, phases["execute"])
        /\ Len(results) = SumSeq([k \in 1..Len(last.calls) |-> last.calls[k].returned])

\* C3: Execute.go() on a step not 'done' with no guest raises the execution
\* error, invokes no phase and leaves the status as it was.
C3_NoGuestsRaises ==
    (WasGo(last, "execute", NotDone) /\ guests = <<>>) =>
        /\ last.error = "ExecuteError: No guests available for execution."
        /\ last.calls = <<>>
        /\ status["execute"] = last.was
        /\ status["execute"] # "done"

C3_Witness ==
    /\ WasGo(last, "execute", {"todo"})
    /\ guests = <<>>
    /\ phases["execute"] # <<>>
    /\ last.error = "ExecuteError: No guests available for execution."

\* C4: save() followed by load() leaves results() with the same records, in
\* the same order, for every list of results the execute step holds after
\* wake() or go(), the list go() accumulated over guests and phases included.
C4_SaveLoadRoundTrip ==
    (last.step = "execute" /\ last.op \in {"wake", "go"}) =>
        Execute_load(Mem, Execute_save(Mem, Disk)).results = results

\* A step moves to 'done' in this step of the behaviour
BecomesDone(s) == status[s] # "done" /\ status'[s] = "done"

\* go() ran every phase of the step without error, set 'done' and saved
GoCompleted(s) ==
    /\ WasGo(last', s, NotDone)
    /\ last'.error = None
    /\ RanEveryPhase(last', s, guests, phases[s])
    /\ stepfile'[s].exists /\ stepfile'[s].status = "done"
    /\ s = "execute" => resultsfile' = File(save_results(results'))

\* load() restored a 'done' that is in the store
LoadRestoredDone(s) ==
    /\ last'.op = "load" /\ last'.step = s
    /\ stepfile[s].exists /\ stepfile[s].status = "done"

\* A step that is 'done' has its 'done' in the store
DoneIsPersisted ==
    \A s \in Steps : status[s] = "done" => stepfile[s].exists /\ stepfile[s].status = "done"

\* C10 as stated: a step is 'done' only after go() ran every phase without
\* error and saved; wake() never sets 'done', and go() is the only operation
\* that moves a step from a status that is not 'done' to 'done'.
C10_OnlyGoMovesToDone ==
    /\ []DoneIsPersisted
    /\ [][\A s \in Steps : BecomesDone(s) => GoCompleted(s)]_vars

\* C10 as amended: the same, but for load(), which also moves a step to
\* 'done' when it restores a 'done' that a completed go() saved.
C10_OnlyGoOrLoadMovesToDone ==
    /\ []DoneIsPersisted
    /\ [][\A s \in Steps : BecomesDone(s) => GoCompleted(s) \/ LoadRestoredDone(s)]_vars
    /\ [][\A s \in Steps :
            (stepfile[s].status # "done" /\ stepfile'[s].status = "done") => GoCompleted(s)]_vars

C10_Witness ==
    /\ WasGo(last, "report", {"todo"})
    /\ status["report"] = "done"
    /\ stepfile["report"].status = "done"
    /\ Len(last.calls) = Len(phases["report"])
    /\ Len(phases["report"]) > 1


\* The last call was the operation on the step
WasOp(l, op, step) == l.op = op /\ l.step = step

\* C11: Execute.wake() on a step with more than one configuration record
\* raises the specification error and does nothing else: no plugin is
\* resolved or appended, the records and the framework stay as they are,
\* the status is not set, nothing is saved and no phase is invoked.
C11_MultipleRecordsRaiseFirst ==
    [][(WasOp(last', "wake", "execute") /\ Len(stepdata["execute"]) > 1) =>
          /\ last'.error = "SpecificationError: Multiple execute steps defined."
          /\ last'.calls = <<>>
          /\ UNCHANGED <<status, stepdata, phases, framework, results>>
          /\ UNCHANGED <<stepfile, resultsfile>>
      ]_vars

C11_Witness ==
    /\ WasOp(last, "wake", "execute")
    /\ Len(stepdata["execute"]) > 1
    /\ last.error = "SpecificationError: Multiple execute steps defined."
    /\ phases["execute"] = <<>>
    /\ status["execute"] = None
    /\ ~stepfile["execute"].exists

\* C12: a wake() of an Execute or Report step that returns leaves a step
\* that was 'done' as it is, status and store, and makes any other step
\* 'todo' and saves that status in the same call.
C12_WakeKeepsDoneElseTodo ==
    [][\A s \in Steps :
         (WasOp(last', "wake", s) /\ last'.error = None) =>
            IF status[s] = "done"
            THEN /\ status'[s] = "done"
                 /\ UNCHANGED <<status, stepfile, resultsfile>>
            ELSE /\ status'[s] = "todo"
                 /\ stepfile'[s].exists
                 /\ stepfile'[s].status = "todo"
      ]_vars

C12_Witness ==
    /\ WasOp(last, "wake", "execute")
    /\ last.was = "done"
    /\ last.error = None
    /\ status["execute"] = "done"
    /\ stepfile["execute"].status = "done"
    /\ phases["execute"] # <<>>

\* The packages of the requirement lists of the phases
PackagesOf(ps) ==
    {pkg \in {"beakerlib", "jinja2", "rsync"} :
        \E k \in 1..Len(ps) : \E j \in 1..Len(plugin_requires(ps[k])) :
            plugin_requires(ps[k])[j] = pkg}

\* The orders a sequence of n elements can be put in
Orders(n) == {f \in [1..n -> 1..n] : \A i \in 1..n : \E j \in 1..n : f[j] = i}

\* C13: requires() of an Execute or Report step returns the packages of the
\* requirement lists of the step's phases, each once and nothing else; the
\* phases in any other order give the same packages; no state is changed.
C13_RequiresIsTheUnion ==
    [][\A s \in Steps :
         WasOp(last', "requires", s) =>
            /\ {last'.value[j] : j \in 1..Len(last'.value)} = PackagesOf(phases[s])
            /\ \A i, j \in 1..Len(last'.value) : i # j => last'.value[i] # last'.value[j]
            /\ \A f \in Orders(Len(phases[s])) :
                  requires(s, [Mem EXCEPT !.phases[s] = [k \in 1..Len(phases[s]) |-> phases[s][f[k]]]])
                  = requires(s, Mem)
            /\ last'.error = None
            /\ UNCHANGED <<status, stepdata, phases, framework, results>>
            /\ UNCHANGED <<stepfile, resultsfile>>
      ]_vars

C13_Witness ==
    /\ WasOp(last, "requires", "report")
    /\ Len(phases["report"]) = 2
    /\ phases["report"][1].how = "html"
    /\ phases["report"][2].how = "display"
    /\ last.value = <<"rsync", "jinja2">>

\* The calls are the phases 1 .. n in their order, each with no guest, and
\* only the last of them may have raised
InPhaseOrder(calls, n) ==
    /\ Len(calls) = n
    /\ \A k \in 1..n : calls[k].phase = k /\ calls[k].guest = 0
    /\ \A k \in 1..(n - 1) : ~calls[k].raised

\* C14: Report.go() on a step not 'done' invokes every report phase once, in
\* the order of the phase list and with no guest; when the last has returned
\* it prints the summary, sets 'done' and saves.  When a phase raises, no
\* later phase is invoked, no summary is printed, the status stays as it was
\* and nothing is saved.
C14_ReportGoRunsPhasesInOrder ==
    [][WasGo(last', "report", NotDone) =>
         IF last'.error = None
         THEN /\ InPhaseOrder(last'.calls, Len(phases["report"]))
              /\ \A k \in 1..Len(last'.calls) : ~last'.calls[k].raised
              /\ last'.summary = SummaryOf("report", results)
              /\ status'["report"] = "done"
              /\ stepfile'["report"].exists /\ stepfile'["report"].status = "done"
         ELSE /\ \E n \in 1..Len(phases["report"]) :
                    InPhaseOrder(last'.calls, n) /\ last'.calls[n].raised
              /\ last'.summary = NoSummary
              /\ status'["report"] = status["report"]
              /\ status'["report"] # "done"
              /\ UNCHANGED <<stepfile, resultsfile>>
      ]_vars

C14_Witness ==
    /\ WasGo(last, "report", {"todo"})
    /\ Len(phases["report"]) = 2
    /\ Len(last.calls) = 2
    /\ last.calls[2].raised
    /\ status["report"] = "todo"
    /\ stepfile["report"].status = "todo"

\* The outcomes of the tests on a guest when every test is run
OutcomesOn(g) == [i \in 1..MaxTests |-> check_shell(Test(g, i), NoFiles).result.result]

\* The outcomes the invocations of the last go() returned, in their order
Returned == Flatten([k \in 1..Len(last.calls) |-> last.calls[k].outcomes])

OriginalHow ==
    IF old_method_framework(plandata["execute"][1].how) = None
    THEN plandata["execute"][1].how
    ELSE "tmt"

OriginalFramework ==
    IF old_method_framework(plandata["execute"][1].how) = None
    THEN DEFAULT_FRAMEWORK
    ELSE old_method_framework(plandata["execute"][1].how)

\* C16: the legacy methods are normalized before the plugin is resolved, and
\* the method and the default framework in effect after a wake() are those
\* the first run resolved, in the first run and in every run that resumes it.
C16_ResumeKeepsResolvedFramework ==
    (WasOp(last, "wake", "execute") /\ last.error = None) =>
        /\ \A k \in 1..Len(phases["execute"]) :
              old_method_framework(phases["execute"][k].how) = None
        /\ stepdata["execute"][1].how = OriginalHow
        /\ framework = OriginalFramework

\* C17: when Execute.go() has completed and saved, a later process that
\* constructs the step and loads the store has the status 'done' and the
\* results the first process holds; its go() invokes no phase and prints the
\* summary the first process printed.
C17_LaterProcessSeesSameResults ==
    (WasGo(last, "execute", NotDone) /\ last.error = None) =>
        \A run \in BOOLEAN :
            LET later == Execute_load(Constructed(plandata, run), Disk)
                again == Execute_go(later, Disk, guests, 0)
            IN  /\ later.status["execute"] = "done"
                /\ later.results = results
                /\ again.error = None
                /\ again.calls = <<>>
                /\ again.summary = last.summary

\* C23: Execute.go() looks at the status before it looks at the guests: on a
\* step that is 'done' it returns with the summary and raises nothing when
\* no guest is available.
C23_DoneCheckBeforeGuestCheck ==
    (WasGo(last, "execute", {"done"}) /\ guests = <<>>) =>
        /\ last.error = None
        /\ last.calls = <<>>
        /\ last.summary = SummaryOf("execute", results)
        /\ status["execute"] = "done"

C23_Witness ==
    /\ WasGo(last, "execute", {"done"})
    /\ guests = <<>>
    /\ last.error = None
    /\ results # <<>>
    /\ last.summary = <<Len(results)>>

\* The place of a guest in the guest list
GuestPlace(g) == CHOOSE i \in 1..Len(guests) : guests[i] = g

\* C22: the results list Execute.go() built holds the results of its phase
\* invocations, guest by guest in the order of the guests, within a guest
\* phase by phase in the order of the phases, within an invocation in the
\* order the phase returned them; it is determined by these alone.
C22_ResultsAreGuestMajor ==
    (WasGo(last, "execute", NotDone) /\ last.error = None) =>
        /\ \A k, l \in 1..Len(last.calls) :
              k < l => \/ GuestPlace(last.calls[k].guest) < GuestPlace(last.calls[l].guest)
                       \/ /\ last.calls[k].guest = last.calls[l].guest
                          /\ last.calls[k].phase < last.calls[l].phase
        /\ [i \in 1..Len(results) |-> results[i].result]
              = Flatten([k \in 1..Len(last.calls) |-> last.calls[k].outcomes])

\* The list after the step begins with the list before it
AppendedTo ==
    /\ Len(results') >= Len(results)
    /\ SubSeq(results', 1, Len(results)) = results

\* The list after the step is what load() makes of the store
ReplacedFromStore ==
    /\ WasOp(last', "load", "execute")
    /\ resultsfile.exists
    /\ results' = load_results(resultsfile.content)

\* C24 as stated: the results list of a step object is changed only by the
\* loop of Execute.go(), which appends to it; wake(), load(), requires() and
\* the operations of Report leave it as it is.
C24_OnlyGoChangesResults ==
    [][results' # results =>
          \/ WasGo(last', "execute", NotDone) /\ AppendedTo
          \/ last'.op = "construct"
      ]_vars

\* C24 as amended: the same, but for load(), which replaces the list by the
\* records of the results store when there is one.
C24_OnlyGoOrLoadChangesResults ==
    [][results' # results =>
          \/ WasGo(last', "execute", NotDone) /\ AppendedTo
          \/ ReplacedFromStore
          \/ last'.op = "construct"
      ]_vars

C24_Witness ==
    /\ WasOp(last, "load", "execute")
    /\ phases["execute"] = <<>>
    /\ resultsfile.exists
    /\ results # <<>>
    /\ results = load_results(resultsfile.content)

\* The store holds every result of the list, each under its test name
SavedWhole ==
    /\ resultsfile.exists
    /\ Len(resultsfile.content) = Len(results)
    /\ \A i \in 1..Len(results) :
          resultsfile.content[i] = <<results[i].name, export(results[i])>>

\* The last call of the execute step was save() or ended with save()
ExecuteSaved ==
    \/ WasOp(last, "save", "execute")
    \/ WasOp(last, "wake", "execute") /\ last.error = None /\ last.was # "done"
    \/ WasGo(last, "execute", NotDone) /\ last.error = None

\* C25: after Execute.load() the results list is the records of the store
\* and nothing else; after Execute.save() the store holds the whole list.
C25_LoadReplacesAndSaveKeepsAll ==
    /\ WasOp(last, "load", "execute") =>
          results = IF resultsfile.exists THEN load_results(resultsfile.content) ELSE <<>>
    /\ ExecuteSaved => SavedWhole

\* C26: Report.go(), with the summary it prints, leaves the results, the
\* status, the phases and the store of the execute step as they are and
\* invokes report phases only; the summary is the count of the execute
\* step's results by outcome.
C26_ReportLeavesExecuteAlone ==
    [][WasOp(last', "go", "report") =>
          /\ UNCHANGED <<results, framework, resultsfile>>
          /\ status'["execute"] = status["execute"]
          /\ phases'["execute"] = phases["execute"]
          /\ stepdata'["execute"] = stepdata["execute"]
          /\ stepfile'["execute"] = stepfile["execute"]
          /\ \A k \in 1..Len(last'.calls) :
                /\ last'.calls[k].guest = 0
                /\ last'.calls[k].returned = 0
                /\ last'.calls[k].phase \in 1..Len(phases["report"])
          /\ last'.error = None => last'.summary = SummaryOf("report", results)
      ]_vars

C26_Witness ==
    /\ WasGo(last, "report", {"todo"})
    /\ last.error = None
    /\ status["execute"] = "done"
    /\ Len(results) = 4
    /\ last.summary = <<0, 2, 2>>

\* C29: a wake() that returns, on a step with no phase yet, leaves one phase
\* for each configuration record, in the order of the records, each the
\* plugin of its own record's method; the execute step has one phase.
C29_OnePhasePerRecord ==
    [][\A s \in Steps :
         (WasOp(last', "wake", s) /\ last'.error = None /\ phases[s] = <<>>) =>
            /\ Len(phases'[s]) = Len(stepdata'[s])
            /\ \A k \in 1..Len(phases'[s]) :
                  /\ phases'[s][k] = stepdata'[s][k]
                  /\ phases'[s][k].how \in SupportedMethods(s)
            /\ s = "execute" => Len(phases'[s]) = 1
      ]_vars

C29_Witness ==
    /\ WasOp(last, "wake", "report")
    /\ last.error = None
    /\ Len(stepdata["report"]) = 2
    /\ Len(phases["report"]) = 2
    /\ phases["report"][1].how = "html"
    /\ phases["report"][2].how = "display"

\* The last go() of the execute step was aborted by a raising phase
GoAborted(l) == WasGo(l, "execute", NotDone) /\ l.error = "Error: phase raised"

\* C32: a go() of the execute step that a phase aborts by raising does not
\* set the status 'done' and writes nothing to the results store; a go()
\* called next on the same step that completes leaves in the results list
\* the results of its own invocations, each once, and nothing of the
\* aborted attempt.
C32_AbortedGoLeavesNothingBehind ==
    [][/\ GoAborted(last') =>
             /\ status'["execute"] # "done"
             /\ UNCHANGED <<resultsfile, stepfile>>
       /\ (GoAborted(last) /\ WasGo(last', "execute", NotDone) /\ last'.error = None) =>
             /\ Len(results') = SumSeq([k \in 1..Len(last'.calls) |-> last'.calls[k].returned])
             /\ [i \in 1..Len(results') |-> results'[i].result]
                   = Flatten([k \in 1..Len(last'.calls) |-> last'.calls[k].outcomes])
      ]_vars

----------------------------------------------------------------------------
(* Claims about single functions, checked under SpecUnit *)

\* C21: the normalization turns 'shell' and 'shell.tmt' into how 'tmt' with
\* the default framework 'shell', 'beakerlib' and 'beakerlib.tmt' into how
\* 'tmt' with the default framework 'beakerlib', and leaves the how and the
\* default framework 'shell' of every other record as they are.
C21_NormalizationMapsTheFourOnly ==
    (unit = "normalize" /\ uout >= 1) =>
        LET how == ust.data["execute"][1].how
        IN  IF uin.how \in {"shell", "shell.tmt"}
            THEN how = "tmt" /\ ust.framework = "shell"
            ELSE IF uin.how \in {"beakerlib", "beakerlib.tmt"}
            THEN how = "tmt" /\ ust.framework = "beakerlib"
            ELSE how = uin.how /\ ust.framework = DEFAULT_FRAMEWORK

\* The destinations prepare_scripts is to push to: for each script its path,
\* then its aliases
Destinations(items) ==
    Flatten([k \in 1..Len(items) |-> <<items[k].path>> \o items[k].aliases])

\* C27: prepare_scripts(guest) with scripts configured pushes, for each
\* script in order, once to its path and then once to each alias in order,
\* every push with the option for mode 755 and to the given guest, 1 + the
\* number of aliases for each script in all; with none configured it fails
\* its assertion and pushes nothing.
C27_PrepareScriptsPushes ==
    (unit = "scripts" /\ uout.called) =>
        IF uin.scripts.none \/ uin.scripts.items = <<>>
        THEN uout.raises = "AssertionError" /\ ust = <<>>
        ELSE /\ uout.raises = None
             /\ Len(ust) = SumSeq([k \in 1..Len(uin.scripts.items) |->
                                     1 + Len(uin.scripts.items[k].aliases)])
             /\ [i \in 1..Len(ust) |-> ust[i].destination]
                   = Destinations(uin.scripts.items)
             /\ \A i \in 1..Len(ust) :
                   /\ ust[i].guest = uin.guest
                   /\ \E o \in 1..Len(ust[i].options) :
                         ust[i].options[o] = "--chmod=755"

C27_Witness ==
    /\ unit = "scripts"
    /\ uout.called
    /\ uout.raises = None
    /\ uin.guest = 2
    /\ Len(uin.scripts.items) = 2
    /\ Len(uin.scripts.items[1].aliases) = 2
    /\ Len(uin.scripts.items[2].aliases) = 0
    /\ Len(ust) = 4
    /\ ust[3].destination = <<"usr", "local", "bin", "rhts-reboot">>

\* C28: after any calls of data_path(test, create=True), no call has failed
\* and every test that was passed has its directory under the workdir's
\* data directory and the data subdirectory inside it.
C28_DataPathCreatesBoth ==
    unit = "datapath" =>
        /\ uout.raises = None
        /\ \A name \in ust.created :
              /\ (<<TEST_DATA>> \o name) \in ust.dirs
              /\ (<<TEST_DATA>> \o name \o <<TEST_DATA>>) \in ust.dirs

\* What the searches of the last call found: by component, or by name
\* when nothing was found by component
FoundPlans == IF uin.byComponent # <<>> THEN uin.byComponent ELSE uin.byName

\* C30: a call of find_general_plan that searches returns a plan exactly
\* when one plan was found, and then this plan; it raises when none was
\* found and when more than one was.
C30_GeneralPlanOnlyWhenSingle ==
    (unit = "general" /\ uout.calls > 0 /\ uout.searched) =>
        /\ uout.raises = None <=> Len(FoundPlans) = 1
        /\ uout.raises = None => uout.value = FoundPlans[1]
        /\ uout.raises # None => uout.raises = "NitrateError"

\* C33: applying _map_old_methods again to a step it was applied to leaves
\* the 'how' of the configuration record and the default framework as the
\* first application set them.
C33_NormalizationIsIdempotent ==
    [][(unit = "normalize" /\ uout >= 1 /\ uout' = uout + 1) =>
          /\ ust'.data["execute"][1].how = ust.data["execute"][1].how
          /\ ust'.framework = ust.framework
      ]_vars

C33_Witness ==
    /\ unit = "normalize"
    /\ uout = 2
    /\ uin.how = "beakerlib.tmt"
    /\ ust.data["execute"][1].how = "tmt"
    /\ ust.framework = "beakerlib"

\* Positions in a sequence of bug ids
InSeq(q, id) == \E i \in 1..Len(q) : q[i] = id

\* C34: bz_set_coverage processes every bug of the list whatever fails: a
\* failed flag update never raises, a failed link stops nothing, and at the
\* end ConvertError is raised exactly when a link failed; a bug flagged
\* qe_test_coverage+ gets no flag update and a bug linked to the case gets
\* no link request.
C34_CoverageProcessesEveryBug ==
    (unit = "coverage" /\ uout.called) =>
        /\ uout.processed = Len(uin.bugs)
        /\ uout.raises \in {None, "ConvertError"}
        /\ uout.raises = "ConvertError" <=>
              \E k \in 1..Len(uin.bugs) :
                  InSeq(ust.links, k) /\ uin.outcomes[k].link # "ok"
        /\ \A k \in 1..Len(uin.bugs) :
              /\ InSeq(ust.flagUpdates, k) <=>
                    ~\E i \in 1..Len(uin.bugs[k].flags) :
                        /\ uin.bugs[k].flags[i].name = "qe_test_coverage"
                        /\ uin.bugs[k].flags[i].status = "+"
              /\ InSeq(ust.links, k) <=>
                    ~\E i \in 1..Len(uin.bugs[k].external_bugs) :
                        /\ uin.bugs[k].external_bugs[i].ext_bz_id = EXTERNAL_TRACKER_ID
                        /\ IntOf(uin.bugs[k].external_bugs[i].ext_bz_bug_id) = uin.case_id

\* The call of export_to_nitrate returned and there is a case
Exported == unit = "export" /\ uout.called /\ uout.raises = None /\ uout.status # None

\* The status the three cases give: CONFIRMED for an enabled test, DISABLED
\* for a disabled test whose case is CONFIRMED, else the current status
ThreeCases ==
    IF uin.test.enabled THEN "CONFIRMED"
    ELSE IF uin.remote.status = "CONFIRMED" THEN "DISABLED"
    ELSE uin.remote.status

\* C31 as stated: export_to_nitrate leaves the case CONFIRMED when the test
\* is enabled, DISABLED when the test is disabled and the case was
\* CONFIRMED, and in its status otherwise.
C31_StatusByThreeCases ==
    Exported => uout.status = ThreeCases

\* C31 as amended: the same when export_to_nitrate is not run in dry mode;
\* in dry mode the status is printed by the three cases and the case keeps
\* its status.
C31_StatusByThreeCasesUnlessDry ==
    Exported =>
        /\ uout.echoed = ThreeCases
        /\ ~uin.opt.dry =>
              /\ uout.status = ThreeCases
              /\ InSeq(ust, "case.status") <=>
                    (uin.test.enabled \/ uin.remote.status = "CONFIRMED")
        /\ uin.opt.dry => uout.status = uin.remote.status

C31_Witness ==
    /\ Exported
    /\ ~uin.opt.dry
    /\ ~uin.test.enabled
    /\ uin.remote.status = "CONFIRMED"
    /\ uout.status = "DISABLED"
    /\ InSeq(ust, "case.status")

\* C35: export_to_nitrate in dry mode, whatever the other options, makes no
\* write: no case is created, no attribute assigned, no component, plan,
\* tag, bug or case run added or removed, no update called, no Bugzilla
\* flag or link changed, and the case id is not written to the metadata.
C35_DryModeWritesNothing ==
    (unit = "export" /\ uout.called /\ uin.opt.dry) =>
        /\ ust = <<>>
        /\ uout.status # None => uout.status = uin.remote.status

C35_Witness ==
    /\ unit = "export"
    /\ uout.called
    /\ uout.raises = None
    /\ uin.opt = [create |-> TRUE, general |-> TRUE, link_runs |-> TRUE,
                  duplicate |-> TRUE, bugzilla |-> TRUE, dry |-> TRUE]
    /\ ~uin.test.hasId
    /\ uin.test.component # <<>>
    /\ uin.test.verifies # <<>>
    /\ uin.remote.openRun
    /\ uout.echoed = "CONFIRMED"
    /\ ust = <<>>

====
